---- MODULE Spec2Model ----
(***************************************************************************)
(* A model of the parcon parser-combinator engine                          *)
(* (src/parcon/parcon/__init__.py, with PyStruct from binary.py).          *)
(*                                                                         *)
(* Python values are tagged records, an input string is a sequence of      *)
(* one-character strings, a parser object is a record naming its class and *)
(* its fields, and Parser.parse is the recursive operator parse.  A call   *)
(* that does not return a Result is an outcome record with the single      *)
(* field "raised" (the exception's class) or "hang" (a loop that never     *)
(* ends).                                                                  *)
(***************************************************************************)
EXTENDS Integers, Sequences, FiniteSets, TLC

VARIABLES
    input,      \* the arguments the caller passes (fixed per behaviour)
    forward,    \* the parser field of the grammar's Forward node
    sets,       \* history: the arguments of the Forward.set calls so far
    op,         \* the operation that ran last
    args,       \* the arguments the caller chose for that operation
    outcome     \* what the last operation returned or raised

vars == <<input, forward, sets, op, args, outcome>>

---------------------------------------------------------------------------
(* Bounds of the model *)

MaxLen == 3          \* longest input string
MaxCount == 2        \* largest min and max given to Repeat
MaxSets == 2         \* most Forward.set calls in one behaviour
MaxExpected == 3     \* longest expectation list given to filter_expectations
MaxPosition == 2     \* largest position in such a list
RecursionLimit == 40  \* depth of nested parse calls the interpreter allows

---------------------------------------------------------------------------
(* Python values *)

None == [t |-> "None"]
Str(s) == [t |-> "str", s |-> s]
IntV(n) == [t |-> "int", n |-> n]
Tuple(items) == [t |-> "tuple", items |-> items]
List(items) == [t |-> "list", items |-> items]
Pair(key, value) == [t |-> "Pair", key |-> key, value |-> value]

Raise(exc) == [raised |-> exc]
Hang == [hang |-> TRUE]
Raised(r) == "raised" \in DOMAIN r
Hangs(r) == "hang" \in DOMAIN r
Returned(r) == ~Raised(r) /\ ~Hangs(r)

Min(a, b) == IF a < b THEN a ELSE b
Max(a, b) == IF a > b THEN a ELSE b

\* text[i:j] for 0 <= i, 0 <= j
Slice(text, i, j) ==
    LET hi == Min(j, Len(text))
    IN IF i >= hi THEN <<>> ELSE SubSeq(text, i + 1, hi)

RECURSIVE Concat(_)
Concat(seqs) ==
    IF seqs = <<>> THEN <<>> ELSE Head(seqs) \o Concat(Tail(seqs))

\* "".join(chars): chars is a string or a list of one-character strings
Join(chars) ==
    IF chars.t = "str" THEN chars.s
    ELSE Concat([i \in 1..Len(chars.items) |-> chars.items[i].s])

\* c in chars, for a one-character (or empty) slice c
InChars(c, chars) ==
    IF chars.t = "str"
    THEN \E i \in 0..Len(chars.s) :
            \E j \in i..Len(chars.s) : Slice(chars.s, i, j) = c
    ELSE \E i \in 1..Len(chars.items) : chars.items[i] = Str(c)

---------------------------------------------------------------------------
(* Expectations *)

EUnsatisfiable == [kind |-> "EUnsatisfiable"]
EStringLiteral(text) == [kind |-> "EStringLiteral", text |-> text]
EAnyCharIn(chars) == [kind |-> "EAnyCharIn", chars |-> chars]
EAnyCharNotIn(chars) == [kind |-> "EAnyCharNotIn", chars |-> chars]
EAnyChar == [kind |-> "EAnyChar"]
ECustomExpectation(message) == [kind |-> "ECustomExpectation", message |-> message]

format(e) ==
    CASE e.kind = "EUnsatisfiable" -> <<"EOF">>
      [] e.kind = "EStringLiteral" -> <<"\"">> \o e.text \o <<"\"">>
      [] e.kind = "EAnyCharIn" ->
            <<"any char in ", "\"">> \o Join(e.chars) \o <<"\"">>
      [] e.kind = "EAnyCharNotIn" ->
            <<"any char not in ", "\"">> \o Join(e.chars) \o <<"\"">>
      [] e.kind = "EAnyChar" -> <<"any char">>
      [] e.kind = "ECustomExpectation" -> e.message

---------------------------------------------------------------------------
(* Results *)

\* Result.__init__ wraps an expectation that is not a list in a list; the
\* callers that pass a bare (position, expectation) tuple use AsList.
AsList(pair) == <<pair>>

Result(end, value, expected) ==
    [end |-> end, value |-> value, expected |-> expected]

failure(expected) == Result(None, None, expected)

match(end, value, expected) == Result(IntV(end), value, expected)

\* Result.__nonzero__
Truthy(r) == r.end # None

---------------------------------------------------------------------------
(* Failure diagnostics *)

IsUnsatisfiable(e) == e.kind = "EUnsatisfiable"

\* max(expected, key=position): the first pair holding the greatest position
MaxByPosition(expected) ==
    LET top == CHOOSE p \in {expected[i][1] : i \in 1..Len(expected)} :
                   \A i \in 1..Len(expected) : expected[i][1] <= p
        first == CHOOSE i \in 1..Len(expected) :
                    /\ expected[i][1] = top
                    /\ \A j \in 1..(i - 1) : expected[j][1] # top
    IN expected[first]

\* no removal of duplicates at all
remove_duplicates_none(expected, used_expectations) == expected

\* the branch for mixed lists with the maximum taken over every entry,
\* before the EUnsatisfiable entries are dropped
filter_mixed_max_first(expected) ==
    LET pos == expected[CHOOSE i \in 1..Len(expected) :
                   \A j \in 1..Len(expected) : expected[j][1] <= expected[i][1]][1]
        others == SelectSeq(expected, LAMBDA pe : pe[2].kind # "EUnsatisfiable")
        at == SelectSeq(others, LAMBDA pe : pe[1] = pos)
    IN <<pos, [i \in 1..Len(at) |-> at[i][2]]>>

\* the loop that drops every expectation whose (type, format()) was seen
RECURSIVE remove_duplicates(_, _)
remove_duplicates(expected, used_expectations) ==
    IF expected = <<>> THEN <<>>
    ELSE LET e == Head(expected)
             e_tuple == <<e.kind, format(e)>>
         IN IF e_tuple \notin used_expectations
            THEN <<e>> \o remove_duplicates(Tail(expected),
                                            used_expectations \cup {e_tuple})
            ELSE remove_duplicates(Tail(expected), used_expectations)

\* the branch taken when some entry is not an EUnsatisfiable
filter_mixed(expected) ==
    LET others == SelectSeq(expected, LAMBDA pe : ~IsUnsatisfiable(pe[2]))
        pos == MaxByPosition(others)[1]
        at == SelectSeq(others, LAMBDA pe : pe[1] = pos)
    IN <<pos, [i \in 1..Len(at) |-> at[i][2]]>>

\* the branch taken when every entry is an EUnsatisfiable
filter_unsatisfiable(expected) ==
    LET top == MaxByPosition(expected)
    IN <<top[1], <<top[2]>> >>

\* expectation_list_type.check_matches(expected) passes for every list of
\* (int, Expectation) pairs, the only lists modelled.
filter_expectations(expected) ==
    IF Len(expected) = 0 THEN <<0, <<>> >>
    ELSE LET chosen ==
                 IF \A i \in 1..Len(expected) : IsUnsatisfiable(expected[i][2])
                 THEN filter_unsatisfiable(expected)
                 ELSE filter_mixed(expected)
         IN <<chosen[1], remove_duplicates(chosen[2], {})>>

stringify_expectations(expectations) ==
    [i \in 1..Len(expectations) |-> format(expectations[i])]

\* ", ".join(strings), kept as a sequence of the joined pieces
RECURSIVE JoinComma(_)
JoinComma(strings) ==
    IF strings = <<>> THEN <<>>
    ELSE IF Len(strings) = 1 THEN Head(strings)
    ELSE Head(strings) \o <<", ">> \o JoinComma(Tail(strings))

format_expectations(pos, expectations) ==
    <<"At position ", ToString(pos), ": expected one of ">>
        \o JoinComma(expectations)

format_failure(expected) ==
    LET filtered == filter_expectations(expected)
    IN format_expectations(filtered[1], stringify_expectations(filtered[2]))

---------------------------------------------------------------------------
(* Parser objects *)

whitespace == Str(<<" ", "\t", "\r", "\n">>)

Invalid == [kind |-> "Invalid"]
Literal(text) == [kind |-> "Literal", text |-> text]
SignificantLiteral(text) == [kind |-> "SignificantLiteral", text |-> text]
CharIn(chars) == [kind |-> "CharIn", chars |-> chars]
CharNotIn(chars) == [kind |-> "CharNotIn", chars |-> chars]
Whitespace == [kind |-> "Whitespace", chars |-> whitespace]
AnyChar == [kind |-> "AnyChar"]
ZeroOrMore(parser) == [kind |-> "ZeroOrMore", parser |-> parser]
OneOrMore(parser) == [kind |-> "OneOrMore", parser |-> parser]
Then(first, second) == [kind |-> "Then", first |-> first, second |-> second]
Discard(parser) == [kind |-> "Discard", parser |-> parser]
First(parsers) == [kind |-> "First", parsers |-> parsers]
Longest(parsers) == [kind |-> "Longest", parsers |-> parsers]
Exact(parser, space_parser) ==
    [kind |-> "Exact", parser |-> parser, space_parser |-> space_parser]
Optional(parser, default) ==
    [kind |-> "Optional", parser |-> parser, default |-> default]
Repeat(parser, min, max) ==
    [kind |-> "Repeat", parser |-> parser, min |-> min, max |-> max]
Forward == [kind |-> "Forward"]
Return(value) == [kind |-> "Return", value |-> value]
Limit(length, parser) == [kind |-> "Limit", length |-> length, parser |-> parser]
Tag(tag, parser) == [kind |-> "Tag", tag |-> tag, parser |-> parser]
End(consume) == [kind |-> "End", consume |-> consume]
PyStruct(fmt) == [kind |-> "PyStruct", format |-> fmt, length |-> 1]

upper_chars ==
    Str(<<"A", "B", "C", "D", "E", "F", "G", "H", "I", "J", "K", "L", "M",
          "N", "O", "P", "Q", "R", "S", "T", "U", "V", "W", "X", "Y", "Z">>)
lower_chars ==
    Str(<<"a", "b", "c", "d", "e", "f", "g", "h", "i", "j", "k", "l", "m",
          "n", "o", "p", "q", "r", "s", "t", "u", "v", "w", "x", "y", "z">>)
alpha_chars == Str(upper_chars.s \o lower_chars.s)
digit_chars == Str(<<"0", "1", "2", "3", "4", "5", "6", "7", "8", "9">>)

\* Word(chars, init_chars, min, max) for min >= 1: init_chars defaults to chars
\* Word.__init__; min < 1 raises Exception("min must be greater than zero")
Word(chars, init_chars, min, max) ==
    IF min.n < 1 THEN Raise("Exception")
    ELSE [kind |-> "Word", chars |-> chars,
          init_chars |-> IF init_chars = None THEN chars ELSE init_chars,
          min |-> min, max |-> max]
Name(name, parser) == [kind |-> "Name", name |-> name, parser |-> parser]
Translate(parser, function) ==
    [kind |-> "Translate", parser |-> parser, function |-> function]

\* Digit(): CharIn.__init__(self, digit_chars)
Digit == CharIn(digit_chars)

alpha_word == Name("alpha word", Word(alpha_chars, None, IntV(1), None))
digit == Name("digit", Digit)
integer == Name("integer", Translate(Exact(OneOrMore(digit), Invalid), "join"))
number ==
    Name("number",
         Translate(Translate(Exact(Then(Then(Optional(CharIn(Str(<<"+", "-">>)), None),
                                             OneOrMore(digit)),
                                        Optional(Then(SignificantLiteral(<<".">>),
                                                      OneOrMore(digit)), None)),
                                   Invalid),
                             "flatten"),
                   "join"))

Bind(parser, function) == [kind |-> "Bind", parser |-> parser, function |-> function]
Chars(num) == [kind |-> "Chars", number |-> num]

\* isinstance(value, Parser)
IsParser(value) == "kind" \in DOMAIN value

promote(value) ==
    IF IsParser(value) THEN value
    ELSE IF value.t = "str" THEN Literal(value.s)
    ELSE value

Except(parser, avoid_parser) ==
    [kind |-> "Except", parser |-> parser, avoid_parser |-> avoid_parser]
Present(parser) == [kind |-> "Present", parser |-> parser]
Preserve(parser) == [kind |-> "Preserve", parser |-> parser]
And(parser, check_parser) ==
    [kind |-> "And", parser |-> parser, check_parser |-> check_parser]
Not(parser) == [kind |-> "Not", parser |-> parser]

\* first | second, for two parsers
op_or(first, second) ==
    First((IF first.kind = "First" THEN first.parsers ELSE <<first>>)
              \o (IF second.kind = "First" THEN second.parsers ELSE <<second>>))

Keyword(parser, terminator, exact_terminator, or_end) ==
    [kind |-> "Keyword", parser |-> promote(parser),
     terminator |-> IF terminator # None THEN promote(terminator) ELSE None,
     exact_terminator |-> exact_terminator, or_end |-> or_end]

\* InfixExpr.__init__, for a non-empty list of operators
InfixExpr(component_parser, operators) ==
    [kind |-> "InfixExpr", component |-> component_parser,
     operators |-> [i \in 1..Len(operators) |->
                        <<promote(operators[i][1]), operators[i][2]>>]]

\* ord() of the characters the inputs are made of
Ord(c) ==
    CASE c = "a" -> 97
      [] c = "b" -> 98
      [] c = " " -> 32
      [] c = "\\x01" -> 1
      [] c = "\\x02" -> 2
      [] c = "\\xfe" -> 254
      [] c = "\\xff" -> 255

\* struct.unpack(">b", c)[0]
unpack_signed_byte(c) == IF Ord(c) >= 128 THEN Ord(c) - 256 ELSE Ord(c)

RECURSIVE parse(_, _, _, _, _, _)
RECURSIVE Parser_consume(_, _, _, _, _)

\* re.compile(r"[ \t\r\n]*").match(t, p, e): the end of the match, or None
\* when endpos is less than pos
RECURSIVE regex_whitespace_end(_, _, _)
regex_whitespace_end(t, p, e) ==
    IF p < e /\ InChars(<<t[p + 1]>>, whitespace)
    THEN regex_whitespace_end(t, p + 1, e)
    ELSE p

\* regex.match(t, p): the match is not stopped at e
regex_whitespace_match_unbounded(t, p, e) ==
    LET pos == Max(0, Min(p, Len(t)))
        endpos == Max(0, Min(e, Len(t)))
    IN IF endpos < pos THEN None ELSE IntV(regex_whitespace_end(t, pos, Len(t)))

regex_whitespace_match(t, p, e) ==
    LET pos == Max(0, Min(p, Len(t)))
        endpos == Max(0, Min(e, Len(t)))
    IN IF endpos < pos THEN None ELSE IntV(regex_whitespace_end(t, pos, endpos))

\* the consume that Whitespace.__init__ installs: regex.match(t, p, e).end()
Whitespace_consume(t, p, e) ==
    LET m == regex_whitespace_match(t, p, e)
    IN IF m = None THEN Raise("AttributeError") ELSE m

\* Parser.consume; a success that does not move makes the loop repeat the
\* same call for ever
Parser_consume(self, text, pos, end, depth) ==
    LET result == parse(self, text, pos, end, Invalid, depth + 1)
    IN IF ~Returned(result) THEN result
       ELSE IF ~Truthy(result) THEN IntV(pos)
       ELSE IF result.end.n = pos THEN Hang
       ELSE Parser_consume(self, text, result.end.n, end, depth)

\* space.consume(text, position, end)
\* the whitespace parser applied once: an if in place of the while
consume_once(space, text, pos, end, depth) ==
    IF space.kind = "Whitespace" THEN Whitespace_consume(text, pos, end)
    ELSE LET result == parse(space, text, pos, end, Invalid, depth + 1)
         IN IF ~Returned(result) THEN result
            ELSE IF Truthy(result) THEN result.end ELSE IntV(pos)

consume(space, text, pos, end, depth) ==
    IF space.kind = "Whitespace" THEN Whitespace_consume(text, pos, end)
    ELSE Parser_consume(space, text, pos, end, depth)

---------------------------------------------------------------------------
(* Primitive matchers *)

\* an Invalid that skips blanks before failing
Invalid_parse_consuming(self, text, pos, end, space, depth) ==
    failure(AsList(<<Whitespace_consume(text, pos, end).n, EUnsatisfiable>>))

Invalid_parse(self, text, pos, end, space, depth) ==
    failure(AsList(<<pos, EUnsatisfiable>>))

Literal_parse(self, text, pos, end, space, depth) ==
    LET c == consume(space, text, pos, end, depth)
    IN IF ~Returned(c) THEN c
       ELSE LET expected_end == c.n + Len(self.text)
            IN IF expected_end <= end /\ Slice(text, c.n, expected_end) = self.text
               THEN match(expected_end, None, << <<expected_end, EUnsatisfiable>> >>)
               ELSE failure(AsList(<<c.n, EStringLiteral(self.text)>>))

SignificantLiteral_parse(self, text, pos, end, space, depth) ==
    LET c == consume(space, text, pos, end, depth)
    IN IF ~Returned(c) THEN c
       ELSE LET expected_end == c.n + Len(self.text)
            IN IF expected_end <= end /\ Slice(text, c.n, expected_end) = self.text
               THEN match(expected_end, Str(self.text),
                          << <<expected_end, EUnsatisfiable>> >>)
               ELSE failure(AsList(<<c.n, EStringLiteral(self.text)>>))

\* a CharIn whose failure points at the position of the call
CharIn_parse_unskipped(self, text, pos, end, space, depth) ==
    LET c == consume(space, text, pos, end, depth)
    IN IF ~Returned(c) THEN c
       ELSE LET expected_end == c.n + 1
            IN IF c.n < end /\ InChars(Slice(text, c.n, expected_end), self.chars)
               THEN match(expected_end, Str(<<text[c.n + 1]>>),
                          << <<expected_end, EUnsatisfiable>> >>)
               ELSE failure(<< <<pos, EAnyCharIn(self.chars)>> >>)

CharIn_parse(self, text, pos, end, space, depth) ==
    LET c == consume(space, text, pos, end, depth)
    IN IF ~Returned(c) THEN c
       ELSE LET expected_end == c.n + 1
            IN IF c.n < end /\ InChars(Slice(text, c.n, expected_end), self.chars)
               THEN match(expected_end, Str(<<text[c.n + 1]>>),
                          << <<expected_end, EUnsatisfiable>> >>)
               ELSE failure(<< <<c.n, EAnyCharIn(self.chars)>> >>)

CharNotIn_parse(self, text, pos, end, space, depth) ==
    LET c == consume(space, text, pos, end, depth)
    IN IF ~Returned(c) THEN c
       ELSE LET expected_end == c.n + 1
            IN IF c.n < end /\ ~InChars(Slice(text, c.n, expected_end), self.chars)
               THEN match(expected_end, Str(<<text[c.n + 1]>>),
                          << <<expected_end, EUnsatisfiable>> >>)
               ELSE failure(<< <<c.n, EAnyCharNotIn(self.chars)>> >>)

AnyChar_parse(self, text, pos, end, space, depth) ==
    LET c == consume(space, text, pos, end, depth)
    IN IF ~Returned(c) THEN c
       ELSE IF c.n < end
            THEN match(c.n + 1, Str(<<text[c.n + 1]>>),
                       << <<c.n + 1, EUnsatisfiable>> >>)
            ELSE failure(<< <<c.n, EAnyChar>> >>)

Return_parse(self, text, pos, end, space, depth) ==
    match(pos, self.value, << <<pos, EUnsatisfiable>> >>)

End_parse(self, text, pos, end, space, depth) ==
    LET c == consume(space, text, pos, end, depth)
    IN IF ~Returned(c) THEN c
       ELSE IF c.n = end
            THEN LET result_pos == IF self.consume THEN c.n ELSE pos
                 IN match(result_pos, None, << <<result_pos, EUnsatisfiable>> >>)
            ELSE failure(<< <<pos, EUnsatisfiable>> >>)

PyStruct_parse(self, text, pos, end, space, depth) ==
    LET c == consume(space, text, pos, end, depth)
    IN IF ~Returned(c) THEN c
       ELSE IF c.n + self.length > end
            THEN failure(<< <<c.n, ECustomExpectation(
                                 <<"struct.unpack format ", "'">>
                                     \o self.format \o <<"'">>)>> >>)
            ELSE match(c.n + self.length, IntV(unpack_signed_byte(text[c.n + 1])),
                       AsList(<<c.n + self.length, EUnsatisfiable>>))

---------------------------------------------------------------------------
(* Structural combinators *)

\* Then's merge with isinstance(x, tuple) in place of type(x) == tuple: a
\* Pair is unpacked into its key and value
Then_value_isinstance(x, y) ==
    LET is_tuple(v) == v.t \in {"tuple", "Pair"}
        items(v) == IF v.t = "Pair" THEN <<v.key, v.value>> ELSE v.items
    IN IF x = None THEN y
       ELSE IF y = None THEN x
       ELSE IF is_tuple(x) /\ is_tuple(y) THEN Tuple(items(x) \o items(y))
       ELSE IF is_tuple(x) THEN Tuple(items(x) \o <<y>>)
       ELSE IF is_tuple(y) THEN Tuple(<<x>> \o items(y))
       ELSE Tuple(<<x, y>>)

\* a merge that pairs its operands without flattening either
Then_value_nested(x, y) ==
    IF x = None THEN y
    ELSE IF y = None THEN x
    ELSE Tuple(<<x, y>>)

\* the value Then.parse gives for the operands' values x and y
Then_value(x, y) ==
    IF x = None THEN y
    ELSE IF y = None THEN x
    ELSE IF x.t = "tuple" /\ y.t = "tuple" THEN Tuple(x.items \o y.items)
    ELSE IF x.t = "tuple" THEN Tuple(x.items \o <<y>>)
    ELSE IF y.t = "tuple" THEN Tuple(<<x>> \o y.items)
    ELSE Tuple(<<x, y>>)

Then_parse(self, text, pos, end, space, depth) ==
    LET firstResult == parse(self.first, text, pos, end, space, depth + 1)
    IN IF ~Returned(firstResult) THEN firstResult
       ELSE IF ~Truthy(firstResult) THEN failure(firstResult.expected)
       ELSE LET secondResult ==
                    parse(self.second, text, firstResult.end.n, end, space, depth + 1)
            IN IF ~Returned(secondResult) THEN secondResult
               ELSE IF ~Truthy(secondResult)
                    THEN failure(firstResult.expected \o secondResult.expected)
               ELSE match(secondResult.end.n,
                          Then_value(firstResult.value, secondResult.value),
                          firstResult.expected \o secondResult.expected)

Discard_parse(self, text, pos, end, space, depth) ==
    LET result == parse(self.parser, text, pos, end, space, depth + 1)
    IN IF ~Returned(result) THEN result
       ELSE IF Truthy(result) THEN match(result.end.n, None, result.expected)
       ELSE failure(result.expected)

\* max() replaced by taking the last success
Longest_max_last(successful) == successful[Len(successful)]

\* among the successes that end furthest, the one added last
Longest_max_latest(successful) ==
    LET i == CHOOSE k \in 1..Len(successful) :
                 /\ \A j \in 1..Len(successful) :
                        successful[j].end.n <= successful[k].end.n
                 /\ \A j \in (k + 1)..Len(successful) :
                        successful[j].end.n < successful[k].end.n
    IN successful[i]

\* max(successful, key=lambda result: result.end): the first of the greatest
Longest_max(successful) ==
    LET i == CHOOSE k \in 1..Len(successful) :
                 /\ \A j \in 1..Len(successful) :
                        successful[j].end.n <= successful[k].end.n
                 /\ \A j \in 1..(k - 1) : successful[j].end.n < successful[k].end.n
    IN successful[i]

\* the for loop of Longest.parse, from the operand at index i (1-based)
RECURSIVE Longest_loop(_, _, _, _, _, _, _, _, _)
Longest_loop(self, text, pos, end, space, depth, i, successful, expectedForErrors) ==
    IF i > Len(self.parsers)
    THEN IF Len(successful) = 0 THEN failure(expectedForErrors)
         ELSE Longest_max(successful)
    ELSE LET result == parse(self.parsers[i], text, pos, end, space, depth + 1)
         IN IF ~Returned(result) THEN result
            ELSE IF Truthy(result)
                 THEN Longest_loop(self, text, pos, end, space, depth, i + 1,
                                   Append(successful, result), expectedForErrors)
            ELSE Longest_loop(self, text, pos, end, space, depth, i + 1,
                              successful, expectedForErrors \o result.expected)

Longest_parse(self, text, pos, end, space, depth) ==
    Longest_loop(self, text, pos, end, space, depth, 1, <<>>, <<>>)

\* First.parse doing what Longest.parse does
First_parse_as_longest(self, text, pos, end, space, depth) ==
    Longest_loop(self, text, pos, end, space, depth, 1, <<>>, <<>>)

\* the for loop of First.parse, from the operand at index i (1-based)
RECURSIVE First_loop(_, _, _, _, _, _, _, _)
First_loop(self, text, pos, end, space, depth, i, expectedForErrors) ==
    IF i > Len(self.parsers) THEN failure(expectedForErrors)
    ELSE LET result == parse(self.parsers[i], text, pos, end, space, depth + 1)
         IN IF ~Returned(result) THEN result
            ELSE IF Truthy(result)
                 THEN match(result.end.n, result.value,
                            result.expected \o expectedForErrors)
            ELSE First_loop(self, text, pos, end, space, depth, i + 1,
                            expectedForErrors \o result.expected)

First_parse(self, text, pos, end, space, depth) ==
    First_loop(self, text, pos, end, space, depth, 1, <<>>)

\* Exact.parse handing the ambient whitespace parser on to its parser
Exact_parse_ambient(self, text, pos, end, space, depth) ==
    LET c == consume(space, text, pos, end, depth)
    IN IF ~Returned(c) THEN c
       ELSE parse(self.parser, text, c.n, end, space, depth + 1)

Exact_parse(self, text, pos, end, space, depth) ==
    LET c == consume(space, text, pos, end, depth)
    IN IF ~Returned(c) THEN c
       ELSE parse(self.parser, text, c.n, end, self.space_parser, depth + 1)

\* an Optional that forgets what its parser expected
Optional_parse_silent(self, text, pos, end, space, depth) ==
    LET result == parse(self.parser, text, pos, end, space, depth + 1)
    IN IF ~Returned(result) THEN result
       ELSE IF Truthy(result) THEN result
       ELSE match(pos, self.default, <<>>)

Optional_parse(self, text, pos, end, space, depth) ==
    LET result == parse(self.parser, text, pos, end, space, depth + 1)
    IN IF ~Returned(result) THEN result
       ELSE IF Truthy(result) THEN result
       ELSE match(pos, self.default, result.expected)

Tag_parse(self, text, pos, end, space, depth) ==
    LET result == parse(self.parser, text, pos, end, space, depth + 1)
    IN IF ~Returned(result) THEN result
       ELSE IF Truthy(result)
            THEN match(result.end.n, Pair(self.tag, result.value), result.expected)
       ELSE failure(result.expected)

\* the while loop of ZeroOrMore.parse and OneOrMore.parse: the values
\* collected, the position reached and the failed result that ended it
RECURSIVE More_loop(_, _, _, _, _, _, _)
More_loop(self, text, pos, end, space, depth, result) ==
    LET parserResult == parse(self.parser, text, pos, end, space, depth + 1)
    IN IF ~Returned(parserResult) THEN parserResult
       ELSE IF ~Truthy(parserResult)
            THEN [result |-> result, position |-> pos, parserResult |-> parserResult]
       ELSE IF parserResult.end.n = pos THEN Hang
       ELSE More_loop(self, text, parserResult.end.n, end, space, depth,
                      Append(result, parserResult.value))

ZeroOrMore_parse(self, text, pos, end, space, depth) ==
    LET loop == More_loop(self, text, pos, end, space, depth, <<>>)
    IN IF ~Returned(loop) THEN loop
       ELSE match(loop.position, List(loop.result), loop.parserResult.expected)

OneOrMore_parse(self, text, pos, end, space, depth) ==
    LET loop == More_loop(self, text, pos, end, space, depth, <<>>)
    IN IF ~Returned(loop) THEN loop
       ELSE IF Len(loop.result) = 0 THEN failure(loop.parserResult.expected)
       ELSE match(loop.position, List(loop.result), loop.parserResult.expected)

\* the for loop of Repeat.parse, before iteration i (0-based)
RECURSIVE Repeat_loop(_, _, _, _, _, _, _, _, _)
Repeat_loop(self, text, pos, end, space, depth, i, result, parse_result) ==
    IF self.max # None /\ i >= self.max.n
    THEN [result |-> result, position |-> pos, parse_result |-> parse_result]
    ELSE LET r == parse(self.parser, text, pos, end, space, depth + 1)
         IN IF ~Returned(r) THEN r
            ELSE IF ~Truthy(r)
                 THEN [result |-> result, position |-> pos, parse_result |-> r]
            ELSE IF self.max = None /\ r.end.n = pos THEN Hang
            ELSE Repeat_loop(self, text, r.end.n, end, space, depth, i + 1,
                             Append(result, r.value), r)

\* a Repeat that asks for more than min applications
Repeat_parse_above_min(self, text, pos, end, space, depth) ==
    IF self.max = IntV(0)
    THEN match(pos, List(<<>>), AsList(<<pos, EUnsatisfiable>>))
    ELSE IF self.min = IntV(1) /\ self.max = IntV(1)
    THEN parse(self.parser, text, pos, end, space, depth + 1)
    ELSE LET loop == Repeat_loop(self, text, pos, end, space, depth, 0, <<>>, None)
         IN IF ~Returned(loop) THEN loop
            ELSE IF loop.parse_result = None THEN Raise("AttributeError")
            ELSE IF self.min # None /\ self.min.n # 0
                    /\ Len(loop.result) <= self.min.n
                 THEN failure(loop.parse_result.expected)
            ELSE match(loop.position, List(loop.result), loop.parse_result.expected)

Repeat_parse(self, text, pos, end, space, depth) ==
    IF self.max = IntV(0)
    THEN match(pos, List(<<>>), AsList(<<pos, EUnsatisfiable>>))
    ELSE IF self.min = IntV(1) /\ self.max = IntV(1)
    THEN parse(self.parser, text, pos, end, space, depth + 1)
    ELSE LET loop == Repeat_loop(self, text, pos, end, space, depth, 0, <<>>, None)
         IN IF ~Returned(loop) THEN loop
            ELSE IF loop.parse_result = None THEN Raise("AttributeError")
            ELSE IF self.min # None /\ self.min.n # 0
                    /\ Len(loop.result) < self.min.n
                 THEN failure(loop.parse_result.expected)
            ELSE match(loop.position, List(loop.result), loop.parse_result.expected)

\* a Forward that reports a missing target as an ordinary failure
Forward_parse_failure(self, text, pos, end, space, depth) ==
    IF forward = None
    THEN failure(AsList(<<pos, EUnsatisfiable>>))
    ELSE parse(forward, text, pos, end, space, depth + 1)

\* a Forward that matches nothing instead of running its target
Forward_parse_vacant(self, text, pos, end, space, depth) ==
    IF forward = None
    THEN Raise("Exception")
    ELSE IF ~IsParser(forward) THEN Raise("AttributeError")
    ELSE match(pos, None, <<>>)

Forward_parse(self, text, pos, end, space, depth) ==
    IF forward = None
    THEN Raise("Exception")
    ELSE IF ~IsParser(forward) THEN Raise("AttributeError")
    ELSE parse(forward, text, pos, end, space, depth + 1)

Limit_parse(self, text, pos, end, space, depth) ==
    LET result == parse(self.length, text, pos, end, space, depth + 1)
        bounded(p, limit) ==
            parse(self.parser, text, p, IF limit > end THEN end ELSE limit,
                  space, depth + 1)
    IN IF IsParser(self.length)
       THEN IF ~Returned(result) THEN result
            ELSE IF ~Truthy(result) THEN failure(result.expected)
            ELSE IF result.value.t # "int" THEN Raise("TypeError")
            ELSE bounded(result.end.n, result.end.n + result.value.n)
       ELSE bounded(pos, pos + self.length.n)

Name_parse(self, text, pos, end, space, depth) ==
    parse(self.parser, text, pos, end, space, depth + 1)

\* does the character class [chars] of a pattern match the character c
regex_class(c, chars) == \E i \in 1..Len(chars.s) : chars.s[i] = c

\* the end of the greedy run [chars]{,limit} from p, limit None being no limit
RECURSIVE regex_word_run(_, _, _, _, _)
regex_word_run(chars, t, p, e, limit) ==
    IF p < e /\ (limit = None \/ limit.n > 0) /\ regex_class(t[p + 1], chars)
    THEN regex_word_run(chars, t, p + 1, e,
                        IF limit = None THEN None ELSE IntV(limit.n - 1))
    ELSE p

\* self.pattern.match(t, p, e) for "[init_chars][chars]{,max - 1}": the end
\* of the match, or None when there is none
regex_word_match(self, t, p, e) ==
    LET pos == Max(0, Min(p, Len(t)))
        endpos == Max(0, Min(e, Len(t)))
    IN IF pos < endpos /\ regex_class(t[pos + 1], self.init_chars)
       THEN IntV(regex_word_run(self.chars, t, pos + 1, endpos,
                                IF self.max = None THEN None
                                ELSE IntV(self.max.n - 1)))
       ELSE None

\* in Word.parse, total_consumed < self.max is False when max is None
Word_parse(self, text, pos, end, space, depth) ==
    LET c == consume(space, text, pos, end, depth)
    IN IF ~Returned(c) THEN c
       ELSE LET result == regex_word_match(self, text, c.n, end)
            IN IF result = None
               THEN failure(AsList(<<c.n, EAnyCharIn(self.init_chars)>>))
               ELSE LET total_consumed == result.n - c.n
                        new_position == result.n
                    IN IF total_consumed < self.min.n
                       THEN failure(AsList(<<result.n, EAnyCharIn(self.chars)>>))
                       ELSE match(new_position,
                                  Str(Slice(text, c.n, new_position)),
                                  AsList(IF self.max # None
                                            /\ total_consumed < self.max.n
                                         THEN <<new_position, EAnyCharIn(self.chars)>>
                                         ELSE <<new_position, EUnsatisfiable>>))

\* text[i:j] for i >= 0 and any j: a negative j counts from the end of text
PySlice(text, i, j) ==
    Slice(text, i, IF j < 0 THEN Max(Len(text) + j, 0) ELSE j)

Chars_parse(self, text, pos, end, space, depth) ==
    LET c == consume(space, text, pos, end, depth)
    IN IF ~Returned(c) THEN c
       ELSE IF self.number = None \/ self.number.t # "int" THEN Raise("TypeError")
       ELSE IF c.n + self.number.n > end THEN failure(AsList(<<end, EAnyChar>>))
       ELSE match(c.n + self.number.n, Str(PySlice(text, c.n, c.n + self.number.n)),
                  AsList(<<c.n + self.number.n, EUnsatisfiable>>))

\* the functions handed to Bind, each from a value to a parser:
\* lambda x: Chars(ord(x)), lambda n: Chars(n) and lambda x: Literal(x)
bind_call(function, value) ==
    CASE function = "Chars(ord(x))" ->
            IF value # None /\ value.t = "str" /\ Len(value.s) = 1
            THEN Chars(IntV(Ord(value.s[1])))
            ELSE Raise("TypeError")
      [] function = "Chars(n)" -> Chars(value)
      [] function = "Literal(x)" ->
            IF value # None /\ value.t = "str" THEN Literal(value.s)
            ELSE Raise("TypeError")

\* a Bind that runs the second parser from where the first one started
Bind_parse_restart(self, text, pos, end, space, depth) ==
    LET first_result == parse(self.parser, text, pos, end, space, depth + 1)
    IN IF ~Returned(first_result) THEN first_result
       ELSE IF ~Truthy(first_result) THEN failure(first_result.expected)
       ELSE LET second_parser == bind_call(self.function, first_result.value)
                second_result == parse(second_parser, text, pos, end, space, depth + 1)
            IN IF Raised(second_parser) THEN second_parser
               ELSE IF ~Returned(second_result) THEN second_result
               ELSE IF ~Truthy(second_result)
                    THEN failure(second_result.expected \o first_result.expected)
               ELSE match(second_result.end.n, second_result.value,
                          second_result.expected)

Bind_parse(self, text, pos, end, space, depth) ==
    LET first_result == parse(self.parser, text, pos, end, space, depth + 1)
    IN IF ~Returned(first_result) THEN first_result
       ELSE IF ~Truthy(first_result) THEN failure(first_result.expected)
       ELSE LET second_parser == bind_call(self.function, first_result.value)
                second_result == parse(second_parser, text, first_result.end.n,
                                       end, space, depth + 1)
            IN IF Raised(second_parser) THEN second_parser
               ELSE IF ~Returned(second_result) THEN second_result
               ELSE IF ~Truthy(second_result)
                    THEN failure(second_result.expected \o first_result.expected)
               ELSE match(second_result.end.n, second_result.value,
                          second_result.expected)

\* a Keyword that returns the terminator's end, so that the terminator's
\* input is consumed
Keyword_parse_consuming(self, text, pos, end, space, depth) ==
    LET c == consume(space, text, pos, end, depth)
        given == IF self.terminator # None THEN self.terminator ELSE space
        result == parse(self.parser, text, c.n, end, space, depth + 1)
        t_space == IF self.exact_terminator THEN Invalid ELSE space
        terminator == IF self.or_end THEN op_or(given, End(TRUE)) ELSE given
        terminator_result ==
            parse(terminator, text, result.end.n, end, t_space, depth + 1)
    IN IF ~Returned(c) THEN c
       ELSE IF ~Returned(result) THEN result
       ELSE IF ~Truthy(result) THEN failure(result.expected)
       ELSE IF ~Returned(terminator_result) THEN terminator_result
       ELSE IF ~Truthy(terminator_result) THEN failure(terminator_result.expected)
       ELSE match(terminator_result.end.n, result.value, result.expected)

Keyword_parse(self, text, pos, end, space, depth) ==
    LET c == consume(space, text, pos, end, depth)
        given == IF self.terminator # None THEN self.terminator ELSE space
        result == parse(self.parser, text, c.n, end, space, depth + 1)
        t_space == IF self.exact_terminator THEN Invalid ELSE space
        terminator == IF self.or_end THEN op_or(given, End(TRUE)) ELSE given
        terminator_result ==
            parse(terminator, text, result.end.n, end, t_space, depth + 1)
    IN IF ~Returned(c) THEN c
       ELSE IF ~Returned(result) THEN result
       ELSE IF ~Truthy(result) THEN failure(result.expected)
       ELSE IF ~Returned(terminator_result) THEN terminator_result
       ELSE IF ~Truthy(terminator_result) THEN failure(terminator_result.expected)
       ELSE result

Except_parse(self, text, pos, end, space, depth) ==
    LET result == parse(self.parser, text, pos, end, space, depth + 1)
        avoid_result == parse(self.avoid_parser, text, pos, end, space, depth + 1)
    IN IF ~Returned(result) THEN result
       ELSE IF ~Truthy(result) THEN failure(result.expected)
       ELSE IF ~Returned(avoid_result) THEN avoid_result
       ELSE IF Truthy(avoid_result)
            THEN failure(AsList(<<pos, EStringLiteral(<<"(TBD: except)">>)>>))
       ELSE result

Present_parse(self, text, pos, end, space, depth) ==
    LET result == parse(self.parser, text, pos, end, space, depth + 1)
    IN IF ~Returned(result) THEN result
       ELSE IF Truthy(result) THEN match(pos, None, AsList(<<pos, EUnsatisfiable>>))
       ELSE failure(result.expected)

\* a Preserve that returns the Result of its parser, end included
Preserve_parse_advancing(self, text, pos, end, space, depth) ==
    LET result == parse(self.parser, text, pos, end, space, depth + 1)
    IN IF ~Returned(result) THEN result
       ELSE IF Truthy(result) THEN result
       ELSE failure(result.expected)

Preserve_parse(self, text, pos, end, space, depth) ==
    LET result == parse(self.parser, text, pos, end, space, depth + 1)
    IN IF ~Returned(result) THEN result
       ELSE IF Truthy(result)
            THEN match(pos, result.value, AsList(<<pos, EUnsatisfiable>>))
       ELSE failure(result.expected)

\* an And that returns the Result of its check parser
And_parse_check(self, text, pos, end, space, depth) ==
    LET result == parse(self.parser, text, pos, end, space, depth + 1)
        check_result == parse(self.check_parser, text, pos, end, space, depth + 1)
    IN IF ~Returned(result) THEN result
       ELSE IF ~Truthy(result) THEN failure(result.expected)
       ELSE IF ~Returned(check_result) THEN check_result
       ELSE IF ~Truthy(check_result) THEN failure(check_result.expected)
       ELSE check_result

And_parse(self, text, pos, end, space, depth) ==
    LET result == parse(self.parser, text, pos, end, space, depth + 1)
        check_result == parse(self.check_parser, text, pos, end, space, depth + 1)
    IN IF ~Returned(result) THEN result
       ELSE IF ~Truthy(result) THEN failure(result.expected)
       ELSE IF ~Returned(check_result) THEN check_result
       ELSE IF ~Truthy(check_result) THEN failure(check_result.expected)
       ELSE result

Not_parse(self, text, pos, end, space, depth) ==
    LET result == parse(self.parser, text, pos, end, space, depth + 1)
    IN IF ~Returned(result) THEN result
       ELSE IF Truthy(result)
            THEN failure(AsList(<<pos, EStringLiteral(<<"(TBD: Not)">>)>>))
       ELSE match(pos, None, AsList(<<pos, EUnsatisfiable>>))

\* int(s) for a string of decimal digits
RECURSIVE int_of_digits(_)
int_of_digits(s) ==
    IF s = <<>> THEN 0
    ELSE 10 * int_of_digits(SubSeq(s, 1, Len(s) - 1))
             + (CHOOSE d \in 0..9 : digit_chars.s[d + 1] = s[Len(s)])

RECURSIVE GCD(_, _)
GCD(m, n) == IF n = 0 THEN m ELSE GCD(n, m % n)

RECURSIVE Pow10(_)
Pow10(k) == IF k = 0 THEN 1 ELSE 10 * Pow10(k - 1)

\* a float, held as the fraction n / d in lowest terms: exact for the whole
\* numbers and the halves and quarters that the inputs here evaluate to
FloatV(n, d) ==
    LET g == GCD(IF n < 0 THEN -n ELSE n, d)
    IN [t |-> "float", n |-> n \div g, d |-> d \div g]

IsDigits(s) ==
    s # <<>> /\ \A i \in 1..Len(s) : regex_class(s[i], digit_chars)

\* float(s) for a string [sign] digits [. digits]
float(s) ==
    LET signed == s # <<>> /\ s[1] \in {"+", "-"}
        body == IF signed THEN Tail(s) ELSE s
        dots == {i \in 1..Len(body) : body[i] = "."}
        dot == IF dots = {} THEN Len(body) + 1 ELSE CHOOSE i \in dots : TRUE
        whole == SubSeq(body, 1, dot - 1)
        fraction == SubSeq(body, dot + 1, Len(body))
        magnitude == int_of_digits(whole \o fraction)
    IN IF /\ Cardinality(dots) <= 1
          /\ IsDigits(whole)
          /\ (dots = {} \/ IsDigits(fraction))
       THEN FloatV(IF signed /\ s[1] = "-" THEN -magnitude ELSE magnitude,
                   Pow10(Len(fraction)))
       ELSE Raise("ValueError")

RECURSIVE flatten(_)
flatten(value) ==
    IF value = None THEN List(<<>>)
    ELSE IF value.t \notin {"list", "tuple"} THEN List(<<value>>)
    ELSE List(Concat([i \in 1..Len(value.items) |-> flatten(value.items[i]).items]))

\* the one-argument functions handed to Translate: int, float, flatten and
\* "".join
call(function, value) ==
    CASE function = "int" ->
            IF value = None \/ value.t # "str" THEN Raise("TypeError")
            ELSE IF IsDigits(value.s) THEN IntV(int_of_digits(value.s))
            ELSE Raise("ValueError")
      [] function = "float" ->
            IF value = None \/ value.t # "str" THEN Raise("TypeError")
            ELSE float(value.s)
      [] function = "flatten" -> flatten(value)
      [] function = "join" ->
            IF value # None /\ value.t = "str" THEN value
            ELSE IF /\ value # None
                    /\ value.t \in {"list", "tuple"}
                    /\ \A i \in 1..Len(value.items) :
                           value.items[i] # None /\ value.items[i].t = "str"
            THEN Str(Concat([i \in 1..Len(value.items) |-> value.items[i].s]))
            ELSE Raise("TypeError")

IsNumber(x) == x # None /\ x.t \in {"int", "float"}

\* the two-argument functions handed to InfixExpr, applied to numbers:
\* operator.add, operator.sub, operator.mul and operator.truediv
call2(function, x, y) ==
    IF ~IsNumber(x) \/ ~IsNumber(y) THEN Raise("TypeError")
    ELSE LET xn == x.n
             xd == IF x.t = "int" THEN 1 ELSE x.d
             yn == y.n
             yd == IF y.t = "int" THEN 1 ELSE y.d
             ints == x.t = "int" /\ y.t = "int"
         IN CASE function = "operator.add" ->
                    IF ints THEN IntV(xn + yn) ELSE FloatV(xn * yd + yn * xd, xd * yd)
              [] function = "operator.sub" ->
                    IF ints THEN IntV(xn - yn) ELSE FloatV(xn * yd - yn * xd, xd * yd)
              [] function = "operator.mul" ->
                    IF ints THEN IntV(xn * yn) ELSE FloatV(xn * yn, xd * yd)
              [] function = "operator.truediv" ->
                    IF yn = 0 THEN Raise("ZeroDivisionError")
                    ELSE IF yn < 0 THEN FloatV(-(xn * yd), xd * (-yn))
                    ELSE FloatV(xn * yd, xd * yn)

Translate_parse(self, text, pos, end, space, depth) ==
    LET result == parse(self.parser, text, pos, end, space, depth + 1)
    IN IF ~Returned(result) THEN result
       ELSE IF ~Truthy(result) THEN failure(result.expected)
       ELSE LET value == call(self.function, result.value)
            IN IF Raised(value) THEN value
               ELSE match(result.end.n, value, result.expected)

\* value = op_function(component_result.value, value): the operands swapped
InfixExpr_reduce_swapped(op_function, value, component_value) ==
    call2(op_function, component_value, value)

\* value = op_function(value, component_result.value)
InfixExpr_reduce(op_function, value, component_value) ==
    call2(op_function, value, component_value)

\* the operator's input consumed although no component followed it
InfixExpr_unfinished_consuming(pos, value, component_result, op_result) ==
    match(op_result.end.n, value, component_result.expected \o op_result.expected)

\* the return taken when an operator matched and the component after it did
\* not
InfixExpr_unfinished(pos, value, component_result, op_result) ==
    match(pos, value, component_result.expected \o op_result.expected)

\* the for loop over self.operators, from the operator at index i: the
\* first operator to match, or the expectations of all of them
RECURSIVE InfixExpr_operators(_, _, _, _, _, _, _, _)
InfixExpr_operators(self, text, pos, end, space, depth, i, ops_expected) ==
    IF i > Len(self.operators)
    THEN [found_op |-> FALSE, ops_expected |-> ops_expected]
    ELSE LET op_result == parse(self.operators[i][1], text, pos, end, space, depth + 1)
         IN IF ~Returned(op_result) THEN op_result
            ELSE IF Truthy(op_result)
                 THEN [found_op |-> TRUE, ops_expected |-> ops_expected,
                       op_result |-> op_result, op_function |-> self.operators[i][2]]
            ELSE InfixExpr_operators(self, text, pos, end, space, depth, i + 1,
                                     ops_expected \o op_result.expected)

\* the while True loop of InfixExpr.parse; a round that matches an operator
\* and a component without moving is repeated for ever
RECURSIVE InfixExpr_loop(_, _, _, _, _, _, _, _)
InfixExpr_loop(self, text, pos, end, space, depth, value, component_result) ==
    LET ops == InfixExpr_operators(self, text, pos, end, space, depth, 1,
                                   component_result.expected)
    IN IF ~Returned(ops) THEN ops
       ELSE IF ~ops.found_op THEN match(pos, value, ops.ops_expected)
       ELSE LET next_result == parse(self.component, text, ops.op_result.end.n,
                                     end, space, depth + 1)
            IN IF ~Returned(next_result) THEN next_result
               ELSE IF ~Truthy(next_result)
                    THEN InfixExpr_unfinished(pos, value, next_result, ops.op_result)
               ELSE LET reduced == InfixExpr_reduce(ops.op_function, value,
                                                    next_result.value)
                    IN IF Raised(reduced) THEN reduced
                       ELSE IF next_result.end.n = pos THEN Hang
                       ELSE InfixExpr_loop(self, text, next_result.end.n, end,
                                           space, depth, reduced, next_result)

InfixExpr_parse(self, text, pos, end, space, depth) ==
    LET component_result == parse(self.component, text, pos, end, space, depth + 1)
    IN IF ~Returned(component_result) THEN component_result
       ELSE IF ~Truthy(component_result) THEN failure(component_result.expected)
       ELSE InfixExpr_loop(self, text, component_result.end.n, end, space, depth,
                           component_result.value, component_result)

\* Parser.parse, dispatched on the class of self; a call nested deeper than
\* the interpreter allows raises RuntimeError
parse(self, text, pos, end, space, depth) ==
    IF depth > RecursionLimit THEN Raise("RuntimeError")
    ELSE CASE self.kind = "Invalid" -> Invalid_parse(self, text, pos, end, space, depth)
           [] self.kind = "Literal" -> Literal_parse(self, text, pos, end, space, depth)
           [] self.kind = "SignificantLiteral" ->
                  SignificantLiteral_parse(self, text, pos, end, space, depth)
           [] self.kind \in {"CharIn", "Whitespace"} ->
                  CharIn_parse(self, text, pos, end, space, depth)
           [] self.kind = "CharNotIn" -> CharNotIn_parse(self, text, pos, end, space, depth)
           [] self.kind = "AnyChar" -> AnyChar_parse(self, text, pos, end, space, depth)
           [] self.kind = "Return" -> Return_parse(self, text, pos, end, space, depth)
           [] self.kind = "End" -> End_parse(self, text, pos, end, space, depth)
           [] self.kind = "PyStruct" -> PyStruct_parse(self, text, pos, end, space, depth)
           [] self.kind = "Then" -> Then_parse(self, text, pos, end, space, depth)
           [] self.kind = "Discard" -> Discard_parse(self, text, pos, end, space, depth)
           [] self.kind = "First" -> First_parse(self, text, pos, end, space, depth)
           [] self.kind = "Longest" -> Longest_parse(self, text, pos, end, space, depth)
           [] self.kind = "Exact" -> Exact_parse(self, text, pos, end, space, depth)
           [] self.kind = "Optional" -> Optional_parse(self, text, pos, end, space, depth)
           [] self.kind = "Tag" -> Tag_parse(self, text, pos, end, space, depth)
           [] self.kind = "ZeroOrMore" -> ZeroOrMore_parse(self, text, pos, end, space, depth)
           [] self.kind = "OneOrMore" -> OneOrMore_parse(self, text, pos, end, space, depth)
           [] self.kind = "Repeat" -> Repeat_parse(self, text, pos, end, space, depth)
           [] self.kind = "Forward" -> Forward_parse(self, text, pos, end, space, depth)
           [] self.kind = "Limit" -> Limit_parse(self, text, pos, end, space, depth)
           [] self.kind = "Name" -> Name_parse(self, text, pos, end, space, depth)
           [] self.kind = "Word" -> Word_parse(self, text, pos, end, space, depth)
           [] self.kind = "Chars" -> Chars_parse(self, text, pos, end, space, depth)
           [] self.kind = "Bind" -> Bind_parse(self, text, pos, end, space, depth)
           [] self.kind = "Keyword" -> Keyword_parse(self, text, pos, end, space, depth)
           [] self.kind = "Except" -> Except_parse(self, text, pos, end, space, depth)
           [] self.kind = "Present" -> Present_parse(self, text, pos, end, space, depth)
           [] self.kind = "Preserve" -> Preserve_parse(self, text, pos, end, space, depth)
           [] self.kind = "And" -> And_parse(self, text, pos, end, space, depth)
           [] self.kind = "Not" -> Not_parse(self, text, pos, end, space, depth)
           [] self.kind = "Translate" ->
                  Translate_parse(self, text, pos, end, space, depth)
           [] self.kind = "InfixExpr" ->
                  InfixExpr_parse(self, text, pos, end, space, depth)

---------------------------------------------------------------------------
(* Top-level driver *)

\* parse_string without the trailing whitespace.consume
parse_string_no_consume(self, string, all, ws) ==
    LET space == IF ws = None THEN Whitespace ELSE ws
        result == parse(self, string, 0, Len(string), space, 0)
        ParseException ==
            [raised |-> "ParseException",
             message |-> <<"Parse failure: ">> \o format_failure(result.expected)]
    IN IF ~Returned(result) THEN result
       ELSE IF Truthy(result) /\ (~all \/ result.end.n = Len(string))
            THEN [value |-> result.value]
       ELSE ParseException

\* Parser.parse_string; a returned value is the record [value |-> v]
parse_string(self, string, all, ws) ==
    LET space == IF ws = None THEN Whitespace ELSE ws
        result == parse(self, string, 0, Len(string), space, 0)
        ParseException ==
            [raised |-> "ParseException",
             message |-> <<"Parse failure: ">> \o format_failure(result.expected)]
    IN IF ~Returned(result) THEN result
       ELSE IF Truthy(result)
            THEN IF ~all THEN [value |-> result.value]
                 ELSE LET c == consume(space, string, result.end.n, Len(string), 0)
                      IN IF ~Returned(c) THEN c
                         ELSE IF c.n = Len(string) THEN [value |-> result.value]
                         ELSE ParseException
       ELSE ParseException

---------------------------------------------------------------------------
(* The callers: inputs and operations *)

Texts(alphabet) == UNION {[1..n -> alphabet] : n \in 0..MaxLen}

a == <<"a">>
b == <<"b">>
aa == <<"a", "a">>
ab == <<"a", "b">>

\* parcon.binary.byte without its Expected wrapper
byte == PyStruct(<<">", "b">>)

\* is a Forward node part of the grammar p
RECURSIVE HasForward(_)
HasForward(p) ==
    \/ p.kind = "Forward"
    \/ /\ p.kind \in {"ZeroOrMore", "OneOrMore", "Discard", "Exact", "Optional",
                      "Repeat", "Tag", "Limit", "Name", "Translate", "Bind",
                      "Keyword", "Except", "Present", "Preserve", "And", "Not"}
       /\ HasForward(p.parser)
    \/ p.kind = "Limit" /\ IsParser(p.length) /\ HasForward(p.length)
    \/ p.kind = "Then" /\ (HasForward(p.first) \/ HasForward(p.second))
    \/ p.kind = "Except" /\ HasForward(p.avoid_parser)
    \/ p.kind = "And" /\ HasForward(p.check_parser)
    \/ p.kind = "Keyword" /\ p.terminator # None /\ HasForward(p.terminator)
    \/ /\ p.kind = "InfixExpr"
       /\ \/ HasForward(p.component)
          \/ \E i \in 1..Len(p.operators) : HasForward(p.operators[i][1])
    \/ /\ p.kind \in {"First", "Longest"}
       /\ \E i \in 1..Len(p.parsers) : HasForward(p.parsers[i])

\* every Forward node of the grammar under test has been assigned
ForwardsAssigned == forward # None \/ ~HasForward(input.parser)

InitWith(inputs) ==
    /\ input \in inputs
    /\ forward = None
    /\ sets = <<>>
    /\ op = "init"
    /\ args = None
    /\ outcome = None

\* a Forward that can be assigned only once
Forward_set_once(parser) == IF forward = None THEN promote(parser) ELSE forward

\* Forward.set(parser), also spelled forward << parser: the new target
Forward_set(parser) == promote(parser)

\* a caller invokes input.parser.parse(input.text, pos, len(text), whitespace)
Parse ==
    \E pos \in 0..Len(input.text) :
        /\ op' = "parse"
        /\ args' = [position |-> pos, end |-> Len(input.text)]
        /\ outcome' = parse(input.parser, input.text, pos, Len(input.text),
                            input.whitespace, 0)
        /\ UNCHANGED <<input, forward, sets>>

\* a caller invokes input.parser.parse_string(input.text, all, whitespace)
ParseString ==
    \E all \in BOOLEAN, ws \in {None, input.whitespace} :
        /\ op' = "parse_string"
        /\ args' = [all |-> all, whitespace |-> ws]
        /\ outcome' = parse_string(input.parser, input.text, all, ws)
        /\ UNCHANGED <<input, forward, sets>>

Next == Parse \/ ParseString

(* The driver, over grammars of every kind *)

DriverGrammars ==
    {Literal(a), SignificantLiteral(ab), Return(Str(a)), AnyChar, Invalid, End(TRUE),
     CharNotIn(List(<<Str(a)>>)),
     ZeroOrMore(CharIn(Str(ab))), OneOrMore(Literal(a)), ZeroOrMore(Return(None)),
     Optional(Literal(a), Str(b)), Discard(AnyChar),
     Exact(Then(SignificantLiteral(a), AnyChar), Invalid),
     Then(Literal(a), End(FALSE)), First(<<Literal(ab), Literal(a)>>),
     Limit(IntV(1), OneOrMore(AnyChar)),
     Optional(Forward, None), Then(Literal(a), Forward)}

Init ==
    InitWith([parser : DriverGrammars,
              text : Texts({"a", "b", " "}),
              whitespace : {Whitespace, Invalid, CharIn(Str(<<" ">>))}])

Spec == Init /\ [][Next]_vars

(* Length-prefixed binary fields *)

LimitGrammars ==
    {Limit(byte, ZeroOrMore(AnyChar)), Limit(byte, Literal(a)),
     Limit(IntV(1), ZeroOrMore(AnyChar)), Then(AnyChar, Limit(IntV(0), AnyChar))}

InitLimit ==
    InitWith([parser : LimitGrammars,
              text : Texts({"a", " ", "\\x01", "\\xff"}),
              whitespace : {Whitespace, Invalid}])

SpecLimit == InitLimit /\ [][Next]_vars

(* Sequencing *)

ReturnValues ==
    {None, Str(a), Tuple(<<Str(a), Str(b)>>), Pair(Str(<<"k">>), Str(a))}

ThenOperands ==
    {Return(v) : v \in ReturnValues}
        \cup {Literal(a), SignificantLiteral(b), Tag(Str(<<"k">>), AnyChar)}

ThenGrammars == {Then(x, y) : x, y \in ThenOperands}

InitThen ==
    InitWith([parser : ThenGrammars,
              text : Texts({"a", "b", " "}),
              whitespace : {Whitespace, Invalid}])

SpecThen == InitThen /\ [][Parse]_vars

(* Alternation *)

AltOperands ==
    {Literal(a), Literal(ab), SignificantLiteral(a), CharIn(Str(b)), Forward}

AltLists ==
    {<<x, y>> : x, y \in AltOperands}
        \cup {<<x, y, z>> : x, y, z \in {Literal(a), Literal(ab)}}

AltGrammars == {First(ps) : ps \in AltLists} \cup {Longest(ps) : ps \in AltLists}

InitAlt ==
    InitWith([parser : AltGrammars,
              text : Texts({"a", "b", " "}),
              whitespace : {Whitespace}])

SpecAlt == InitAlt /\ [][Parse]_vars

(* Repetition *)

Counts == {None} \cup {IntV(n) : n \in 0..MaxCount}

RepeatGrammars ==
    {Repeat(p, mn, mx) :
        p \in {CharIn(Str(ab)), Literal(a), Return(None)}, mn \in Counts, mx \in Counts}

InitRepeat ==
    InitWith([parser : RepeatGrammars,
              text : Texts({"a", "b", " "}),
              whitespace : {Whitespace}])

SpecRepeat == InitRepeat /\ [][Parse]_vars

(* Forward references *)

ForwardGrammars ==
    {Forward, Optional(Forward, None), First(<<Forward, Literal(a)>>),
     First(<<Literal(a), Forward>>)}

\* what a caller assigns: a parser, a string to promote, and a grammar that
\* refers back to the Forward behind a literal
ForwardTargets ==
    {Literal(a), Str(ab), Then(Literal(a), Optional(Forward, None))}

InitForward ==
    InitWith([parser : ForwardGrammars,
              text : Texts({"a", "b"}),
              whitespace : {Whitespace}])

\* a caller invokes forward.set(parser); the number of calls is capped
ForwardSet ==
    /\ Len(sets) < MaxSets
    /\ \E parser \in ForwardTargets :
        /\ forward' = Forward_set(parser)
        /\ sets' = Append(sets, parser)
        /\ op' = "set"
        /\ args' = [parser |-> parser]
        /\ outcome' = None
        /\ UNCHANGED input

NextForward == ForwardSet \/ Parse \/ ParseString

SpecForward == InitForward /\ [][NextForward]_vars

(* Diagnostics *)

Expectations ==
    {EUnsatisfiable, EStringLiteral(a), EAnyCharIn(Str(ab)),
     EAnyCharIn(List(<<Str(a), Str(b)>>))}

ExpectationLists ==
    UNION {[1..n -> (0..MaxPosition) \X Expectations] : n \in 0..MaxExpected}

InitDiag ==
    InitWith([expected : ExpectationLists])

\* a caller invokes filter_expectations(input.expected)
FilterExpectations ==
    /\ op' = "filter_expectations"
    /\ args' = None
    /\ outcome' = filter_expectations(input.expected)
    /\ UNCHANGED <<input, forward, sets>>

\* a caller invokes format_failure(input.expected)
FormatFailure ==
    /\ op' = "format_failure"
    /\ args' = None
    /\ outcome' = format_failure(input.expected)
    /\ UNCHANGED <<input, forward, sets>>

NextDiag == FilterExpectations \/ FormatFailure

SpecDiag == InitDiag /\ [][NextDiag]_vars

---------------------------------------------------------------------------
(* Properties of parse_string and of parse as a whole *)

RootSpace == IF args.whitespace = None THEN Whitespace ELSE args.whitespace

RootResult == parse(input.parser, input.text, 0, Len(input.text), RootSpace, 0)

RootSucceeds == Returned(RootResult) /\ Truthy(RootResult)

TrailingConsume ==
    consume(RootSpace, input.text, RootResult.end.n, Len(input.text), 0)

\* the root succeeds and, when all is set, the whitespace parser's consume
\* from the result's end reaches the end of the input
Accepts ==
    /\ RootSucceeds
    /\ args.all => TrailingConsume = IntV(Len(input.text))

\* C1 as stated: a parse_string call that comes back returns the root's
\* value if and only if the root's parse from 0 to len(input) succeeds and
\* (with all=True) consume from the result's end returns len(input); in
\* every other case it raises ParseException.
C1_Original ==
    (op = "parse_string" /\ ~Hangs(outcome)) =>
        IF Accepts THEN outcome = [value |-> RootResult.value]
        ELSE Raised(outcome) /\ outcome.raised = "ParseException"

\* C1, amended: when the root's parse itself raises or never returns,
\* parse_string does the same, with the same exception; when it returns,
\* parse_string returns the root's value if and only if the parse succeeded
\* and (with all=True) consume from the result's end returns len(input), and
\* otherwise raises ParseException carrying "Parse failure: " followed by
\* format_failure of the result's expectations. With all=False the value is
\* returned whenever the root succeeds.
C1_ParseString ==
    op = "parse_string" =>
        IF ~Returned(RootResult) THEN outcome = RootResult
        ELSE IF Accepts THEN outcome = [value |-> RootResult.value]
        ELSE /\ Raised(outcome)
             /\ outcome.raised = "ParseException"
             /\ outcome.message =
                    <<"Parse failure: ">> \o format_failure(RootResult.expected)

\* parse_string(all=True) returned a value although the root stopped short
\* of the end of the input: the rest was consumed as whitespace
C1_Witness ==
    /\ op = "parse_string"
    /\ args.all
    /\ "value" \in DOMAIN outcome
    /\ RootResult.end.n < Len(input.text)

\* C2: for a grammar whose Forward nodes are all assigned, parse on any
\* input, start position and whitespace parser returns a Result and never
\* raises.
C2_NeverRaises ==
    (op = "parse" /\ ForwardsAssigned) => ~Raised(outcome)

\* the length parser of the Limit under test, parsed at the position of the call
LengthResult ==
    parse(input.parser.length, input.text, args.position, args.end,
          input.whitespace, 1)

LimitStart ==
    IF IsParser(input.parser.length) THEN LengthResult.end.n ELSE args.position

LimitLength ==
    IF IsParser(input.parser.length) THEN LengthResult.value.n
    ELSE input.parser.length.n

LimitBound == Min(LimitStart + LimitLength, args.end)

\* C16: Limit(length, p) gives what p gives from start with the end bound
\* min(start + length, end), and a success of p never ends beyond that bound;
\* a length parser that fails makes Limit fail with its expectations.
C16_LimitBound ==
    (op = "parse" /\ input.parser.kind = "Limit") =>
        IF IsParser(input.parser.length) /\ ~Returned(LengthResult)
        THEN outcome = LengthResult
        ELSE IF IsParser(input.parser.length) /\ ~Truthy(LengthResult)
        THEN outcome = failure(LengthResult.expected)
        ELSE /\ LimitBound <= args.end
             /\ outcome = parse(input.parser.parser, input.text, LimitStart,
                                LimitBound, input.whitespace, 1)
             /\ (Returned(outcome) /\ Truthy(outcome)) =>
                    outcome.end.n <= LimitBound

---------------------------------------------------------------------------
(* Properties of Then *)

ThenFirst ==
    parse(input.parser.first, input.text, args.position, args.end,
          input.whitespace, 1)

ThenSecond ==
    parse(input.parser.second, input.text, ThenFirst.end.n, args.end,
          input.whitespace, 1)

BothSucceed ==
    /\ op = "parse"
    /\ input.parser.kind = "Then"
    /\ Returned(ThenFirst) /\ Truthy(ThenFirst)
    /\ Returned(ThenSecond) /\ Truthy(ThenSecond)

IsPlainTuple(v) == v.t = "tuple"

\* C3: when both operands of Then succeed with values A and B, the value is
\* B if A is None; else A if B is None; else A+B if both are plain tuples;
\* else A+(B,) if only A is one; else (A,)+B if only B is one; else (A, B).
\* A Pair (a named tuple) counts as a non-tuple and stays one element.
C3_ThenValue ==
    BothSucceed =>
        LET A == ThenFirst.value
            B == ThenSecond.value
        IN /\ Returned(outcome) /\ Truthy(outcome)
           /\ outcome.end = ThenSecond.end
           /\ outcome.value =
                IF A = None THEN B
                ELSE IF B = None THEN A
                ELSE IF IsPlainTuple(A) /\ IsPlainTuple(B)
                     THEN Tuple(A.items \o B.items)
                ELSE IF IsPlainTuple(A) THEN Tuple(Append(A.items, B))
                ELSE IF IsPlainTuple(B) THEN Tuple(<<A>> \o B.items)
                ELSE Tuple(<<A, B>>)
           /\ (A.t = "Pair" /\ B # None) => outcome.value.items[1] = A
           /\ (B.t = "Pair" /\ A # None) =>
                  outcome.value.items[Len(outcome.value.items)] = B

\* a Pair sequenced with a plain tuple: the Pair is prepended whole
C3_Witness ==
    /\ BothSucceed
    /\ ThenFirst.value.t = "Pair"
    /\ IsPlainTuple(ThenSecond.value)
    /\ outcome.value = Tuple(<<ThenFirst.value>> \o ThenSecond.value.items)

---------------------------------------------------------------------------
(* Properties of First and Longest *)

NumOperands == Len(input.parser.parsers)

\* what operand i gives on its own at the position of the call
AltResult(i) ==
    parse(input.parser.parsers[i], input.text, args.position, args.end,
          input.whitespace, 1)

SucceedsAt(i) == Returned(AltResult(i)) /\ Truthy(AltResult(i))

FailsAt(i) == Returned(AltResult(i)) /\ ~Truthy(AltResult(i))

AllExpectations == Concat([i \in 1..NumOperands |-> AltResult(i).expected])

FailsWithAllExpectations ==
    /\ Returned(outcome)
    /\ ~Truthy(outcome)
    /\ outcome.expected = AllExpectations

\* C4: First returns the end and value of the lowest-indexed operand that
\* succeeds, whatever a later operand would match or do (a later operand
\* that would raise is never invoked); if every operand fails, First fails
\* with the operands' expectations concatenated in operand order.
C4_First ==
    (op = "parse" /\ input.parser.kind = "First") =>
        /\ \A i \in 1..NumOperands :
               (SucceedsAt(i) /\ \A j \in 1..(i - 1) : FailsAt(j)) =>
                   /\ Returned(outcome)
                   /\ outcome.end = AltResult(i).end
                   /\ outcome.value = AltResult(i).value
        /\ (\A i \in 1..NumOperands : FailsAt(i)) => FailsWithAllExpectations

\* First stops at an operand although a later one would match more input
C4_Witness ==
    /\ op = "parse"
    /\ input.parser.kind = "First"
    /\ Returned(outcome) /\ Truthy(outcome)
    /\ \E i, j \in 1..NumOperands :
           /\ i < j
           /\ SucceedsAt(i) /\ SucceedsAt(j)
           /\ outcome.end = AltResult(i).end
           /\ AltResult(j).end.n > AltResult(i).end.n

\* C5: Longest invokes every operand (so an operand that raises makes the
\* call raise even after another has succeeded); if at least one succeeds
\* the result is a success of one of them whose end is the maximum end over
\* the succeeding operands; it fails only if every operand fails, and then
\* with the concatenation of all operands' expectations.
C5_Longest ==
    (op = "parse" /\ input.parser.kind = "Longest") =>
        /\ (\E i \in 1..NumOperands : ~Returned(AltResult(i))) => ~Returned(outcome)
        /\ (\A i \in 1..NumOperands : Returned(AltResult(i))) =>
               /\ Returned(outcome)
               /\ Truthy(outcome) <=> \E i \in 1..NumOperands : SucceedsAt(i)
               /\ Truthy(outcome) =>
                      /\ \E i \in 1..NumOperands :
                             /\ SucceedsAt(i)
                             /\ outcome.end = AltResult(i).end
                             /\ outcome.value = AltResult(i).value
                      /\ \A i \in 1..NumOperands :
                             SucceedsAt(i) => AltResult(i).end.n <= outcome.end.n
               /\ ~Truthy(outcome) => FailsWithAllExpectations

\* Longest(Literal("a"), Literal("ab")) on "ab" ends at 2 while First with
\* the same operands ends at 1
C5_Witness ==
    /\ op = "parse"
    /\ input.parser = Longest(<<Literal(a), Literal(ab)>>)
    /\ input.text = ab
    /\ args.position = 0
    /\ outcome.end = IntV(2)
    /\ parse(First(input.parser.parsers), input.text, 0, 2,
             input.whitespace, 0).end = IntV(1)

\* operand i was invoked by the call: every operand of a Longest, and the
\* operands of a First up to the first that succeeds
Attempted(i) ==
    \/ input.parser.kind = "Longest"
    \/ \A j \in 1..(i - 1) : FailsAt(j)

\* C15: a First or a Longest that succeeds keeps, in its Result's expectation
\* list, every (position, expectation) pair of every operand it invoked.
C15_ExpectationsKept ==
    (/\ op = "parse"
     /\ input.parser.kind \in {"First", "Longest"}
     /\ \A i \in 1..NumOperands : Returned(AltResult(i))
     /\ Returned(outcome) /\ Truthy(outcome)) =>
        \A i \in 1..NumOperands :
            Attempted(i) =>
                \A k \in 1..Len(AltResult(i).expected) :
                    \E n \in 1..Len(outcome.expected) :
                        outcome.expected[n] = AltResult(i).expected[k]

---------------------------------------------------------------------------
(* Properties of Repeat *)

\* C6: a success returned by Repeat(p, min, max) has as its value a list of
\* n collected values with min <= n <= max (an absent bound not limiting).
C6_RepeatBounds ==
    (/\ op = "parse"
     /\ input.parser.kind = "Repeat"
     /\ Returned(outcome)
     /\ Truthy(outcome)) =>
        /\ outcome.value.t = "list"
        /\ input.parser.min # None => input.parser.min.n <= Len(outcome.value.items)
        /\ input.parser.max # None => Len(outcome.value.items) <= input.parser.max.n

---------------------------------------------------------------------------
(* Properties of the diagnostics *)

Entries == {input.expected[i] : i \in 1..Len(input.expected)}

\* the entries that are not an EUnsatisfiable
Others == {pe \in Entries : ~IsUnsatisfiable(pe[2])}

Greatest(S) == CHOOSE m \in S : \A x \in S : x <= m

GreatestPosition(pairs) == Greatest({pe[1] : pe \in pairs})

\* what identifies an expectation in the rendered message
KeyOf(e) == <<e.kind, format(e)>>

Basis == IF Others # {} THEN Others ELSE Entries

Candidates ==
    LET at == SelectSeq(input.expected,
                        LAMBDA pe : pe \in Others /\ pe[1] = GreatestPosition(Others))
    IN [i \in 1..Len(at) |-> at[i][2]]

\* the indices of the candidates no earlier candidate renders the same as
FirstOccurrences ==
    {i \in 1..Len(Candidates) :
        \A j \in 1..(i - 1) : KeyOf(Candidates[j]) # KeyOf(Candidates[i])}

NthFirstOccurrence(k) ==
    CHOOSE i \in FirstOccurrences :
        Cardinality({j \in FirstOccurrences : j <= i}) = k

\* C8: filter_expectations never returns an Unsatisfiable together with
\* another entry; Unsatisfiable entries are dropped unless they are the only
\* entries, and then exactly one survives, rendered "EOF"; no two returned
\* entries share (kind, rendered text), the first occurrence of each being
\* kept in the original order; an empty list yields position 0 and no
\* expectations.
C8_Filtered ==
    /\ op = "filter_expectations" =>
        LET out == outcome[2]
        IN /\ (\E k \in 1..Len(out) : IsUnsatisfiable(out[k])) => Len(out) = 1
           /\ (Entries # {} /\ Others = {}) =>
                  out = <<EUnsatisfiable>> /\ format(out[1]) = <<"EOF">>
           /\ Others # {} =>
                  /\ \A k \in 1..Len(out) : ~IsUnsatisfiable(out[k])
                  /\ Len(out) = Cardinality(FirstOccurrences)
                  /\ \A k \in 1..Len(out) : out[k] = Candidates[NthFirstOccurrence(k)]
           /\ \A j, k \in 1..Len(out) : j # k => KeyOf(out[j]) # KeyOf(out[k])
           /\ input.expected = <<>> => outcome = <<0, <<>> >>
    /\ (op = "format_failure" /\ Entries # {} /\ Others = {}) =>
           outcome[4] = "EOF" /\ Len(outcome) = 4

\* an Unsatisfiable entry is dropped and, of two entries that render the
\* same, only the first is returned
C8_Witness ==
    /\ op = "filter_expectations"
    /\ \E pe \in Entries : IsUnsatisfiable(pe[2])
    /\ Others # {}
    /\ Len(outcome[2]) < Len(Candidates)
    /\ \E i \in 1..Len(Candidates) :
           /\ Candidates[i] # outcome[2][1]
           /\ KeyOf(Candidates[i]) = KeyOf(outcome[2][1])

---------------------------------------------------------------------------
(* Properties of Forward *)

\* the call reaches the Forward node: it is the root, the operand of an
\* Optional, or an operand of a First every earlier operand of which fails
InvokesForward ==
    \/ input.parser.kind = "Forward"
    \/ input.parser.kind = "Optional" /\ input.parser.parser.kind = "Forward"
    \/ /\ input.parser.kind = "First"
       /\ \E i \in 1..NumOperands :
              /\ input.parser.parsers[i].kind = "Forward"
              /\ \A j \in 1..(i - 1) : FailsAt(j)

\* C9: parse on a Forward that was never assigned raises an exception and
\* returns no Result, also when the Forward is reached through an Optional
\* or a First.
C9_UnassignedForward ==
    (op = "parse" /\ sets = <<>> /\ InvokesForward) =>
        /\ ~Returned(outcome)
        /\ outcome = Raise("Exception")

\* an Optional around an unassigned Forward raises instead of giving its
\* default
C9_Witness ==
    /\ op = "parse"
    /\ sets = <<>>
    /\ input.parser.kind = "Optional"
    /\ outcome = Raise("Exception")

LastSet == sets[Len(sets)]

\* C10: after one or more set calls, the target is the promoted argument of
\* the latest one, whatever was assigned before and whatever parse calls
\* were made, and parse on the Forward returns exactly what that parser
\* returns for the same input, position, end and whitespace; before the
\* first set call there is no target.
C10_ForwardSet ==
    /\ forward = (IF sets = <<>> THEN None ELSE promote(LastSet))
    /\ (op = "parse" /\ input.parser.kind = "Forward" /\ sets # <<>>) =>
           /\ IsParser(forward)
           /\ outcome = parse(promote(LastSet), input.text, args.position,
                              args.end, input.whitespace, 1)

\* the Forward was assigned Literal("a") and then the string "ab", and a
\* later parse matched "ab"
C10_Witness ==
    /\ op = "parse"
    /\ input.parser.kind = "Forward"
    /\ sets = <<Literal(a), Str(ab)>>
    /\ args.position = 0
    /\ Returned(outcome)
    /\ outcome.end = IntV(2)

---------------------------------------------------------------------------
(* Whitespace islands *)

\* the input of the Exact test case: 'foo \t\r\n bar'
foo_bar ==
    <<"f", "o", "o", " ", "\t", "\r", "\n", " ", "b", "a", "r">>

\* islands built only from matchers that keep what they match as the value
ExactGrammars ==
    {Exact(Then(Then(alpha_word, Word(whitespace, None, IntV(1), None)), alpha_word),
           Invalid),
     Exact(Then(Word(whitespace, None, IntV(1), None), alpha_word), Invalid),
     Exact(Then(SignificantLiteral(a), AnyChar), Invalid),
     Exact(OneOrMore(CharIn(Str(<<"a", " ">>))), Invalid),
     Exact(Then(AnyChar, CharNotIn(Str(a))), Invalid)}

InitExact ==
    InitWith([parser : ExactGrammars,
              text : Texts({"a", " ", "\t"}) \cup {foo_bar},
              whitespace : {Whitespace, Word(Str(<<" ">>), None, IntV(1), None),
                            Invalid}])

SpecExact == InitExact /\ [][Next]_vars

\* the characters of a value made of strings, in order
RECURSIVE FlatText(_)
FlatText(v) ==
    IF v = None THEN <<>>
    ELSE IF v.t = "str" THEN v.s
    ELSE Concat([i \in 1..Len(v.items) |-> FlatText(v.items[i])])

\* where the island starts: the ambient whitespace parser's consume, once
IslandStart ==
    consume(input.whitespace, input.text, args.position, args.end, 0)

\* C11: Exact(p) applies the ambient whitespace parser's consume once at its
\* start and then runs p with Invalid as the whitespace parser, so that no
\* matcher beneath p skips a character: the value of a success is, piece by
\* piece, exactly the input from the start of the island to the result's
\* end, whitespace included.
C11_ExactIsland ==
    (op = "parse" /\ input.parser.kind = "Exact") =>
        /\ Returned(IslandStart)
        /\ outcome = parse(input.parser.parser, input.text, IslandStart.n,
                           args.end, Invalid, 1)
        /\ (Returned(outcome) /\ Truthy(outcome)) =>
               FlatText(outcome.value) =
                   Slice(input.text, IslandStart.n, outcome.end.n)

\* Exact(alpha_word + Word(whitespace) + alpha_word) on 'foo \t\r\n bar'
\* yields ('foo', ' \t\r\n ', 'bar') under the ambient Whitespace()
C11_Witness ==
    /\ op = "parse"
    /\ input.text = foo_bar
    /\ input.whitespace = Whitespace
    /\ args.position = 0
    /\ Returned(outcome)
    /\ outcome.value = Tuple(<<Str(<<"f", "o", "o">>),
                               Str(<<" ", "\t", "\r", "\n", " ">>),
                               Str(<<"b", "a", "r">>)>>)

---------------------------------------------------------------------------
(* Invalid, as a parser and as the whitespace parser *)

\* the input of the Invalid test case: ' \t bar'
space_tab_bar == <<" ", "\t", " ", "b", "a", "r">>

\* matchers that keep the characters they match as their value
KeepingMatchers ==
    {Then(Word(whitespace, None, IntV(1), None), alpha_word),
     Word(Str(<<"a", " ">>), None, IntV(1), IntV(2)),
     AnyChar, CharIn(Str(<<"a", "\t">>)), CharNotIn(Str(a)), SignificantLiteral(a)}

InvalidGrammars == {Invalid, Literal(a)} \cup KeepingMatchers

\* an unassigned Forward as the whitespace parser raises as soon as it is
\* invoked
InitInvalid ==
    InitWith([parser : InvalidGrammars,
              text : Texts({"a", " ", "\t"}) \cup {space_tab_bar},
              whitespace : {Invalid, Whitespace, Forward}])

SpecInvalid == InitInvalid /\ [][Next]_vars

\* C12: Invalid.parse fails everywhere with the single expectation
\* Unsatisfiable at the position given, without invoking the whitespace
\* parser (so even with one that would raise); hence, with Invalid as the
\* whitespace parser, consume returns the position it is given and every
\* matcher matches at exactly the position passed to it.
C12_Invalid ==
    /\ (op = "parse" /\ input.parser = Invalid) =>
           outcome = Result(None, None, << <<args.position, EUnsatisfiable>> >>)
    /\ (op = "parse" /\ input.whitespace = Invalid) =>
           /\ \A p \in 0..Len(input.text) :
                  consume(Invalid, input.text, p, args.end, 0) = IntV(p)
           /\ Returned(outcome)
           /\ (Truthy(outcome) /\ input.parser \in KeepingMatchers) =>
                  FlatText(outcome.value) =
                      Slice(input.text, args.position, outcome.end.n)
           /\ (Truthy(outcome) /\ input.parser.kind = "Literal") =>
                  /\ outcome.end.n = args.position + Len(input.parser.text)
                  /\ Slice(input.text, args.position, outcome.end.n) =
                         input.parser.text
           /\ (~Truthy(outcome) /\ input.parser.kind # "Then") =>
                  /\ Len(outcome.expected) = 1
                  /\ outcome.expected[1][1] = args.position

\* Word(whitespace) + alpha_word on ' \t bar' with Invalid as the whitespace
\* parser yields (' \t ', 'bar')
C12_Witness ==
    /\ op = "parse"
    /\ input.text = space_tab_bar
    /\ input.whitespace = Invalid
    /\ args.position = 0
    /\ Returned(outcome)
    /\ outcome.value = Tuple(<<Str(<<" ", "\t", " ">>), Str(<<"b", "a", "r">>)>>)


(* Infix expressions *)

\* term = number[float] | "(" + expr + ")", then one InfixExpr per level of
\* precedence; expr << term(name="expr")
expr == Forward
term ==
    InfixExpr(InfixExpr(First(<<Translate(number, "float"),
                                Then(Then(Literal(<<"(">>), expr), Literal(<<")">>))>>),
                        <<<<Str(<<"*">>), "operator.mul">>,
                          <<Str(<<"/">>), "operator.truediv">>>>),
              <<<<Str(<<"+">>), "operator.add">>,
                <<Str(<<"-">>), "operator.sub">>>>)

\* one level whose second operator also matches what the first one matches
difference ==
    InfixExpr(Translate(integer, "int"),
              <<<<Str(<<"-">>), "operator.sub">>,
                <<CharIn(Str(<<"+", "-">>)), "operator.add">>>>)


\* c0 op1 c1 op2 c2, each component one digit
Chains ==
    {<<c0, op1, c1, op2, c2>> : c0 \in {"2", "3"}, op1 \in {"-", "+"},
                                c1 \in {"2", "3"}, op2 \in {"-", "+"},
                                c2 \in {"2", "3"}}

Expressions ==
    {<<"2", "+", "3", "*", "4">>, <<"(", "2", "+", "3", ")", "*", "4">>,
     <<"8", "/", "4", "/", "2">>, <<"2", "/", "0">>, <<"2", " ", "+", " ", "3">>,
     <<"1", "0", "/", "4">>, <<"2", "*", "(", "3">>, <<")">>, <<"8", "-", "3", "-", "2">>}

\* c0 op1 c1 op2 with no component after the last operator
Unfinished ==
    {<<c0, op1, c1, op2>> \o rest : c0 \in {"2", "3"}, op1 \in {"-", "+"},
                                    c1 \in {"2", "3"}, op2 \in {"-", "+"},
                                    rest \in {<<>>, <<"-">>, <<" ">>}}

InitInfix ==
    /\ input \in [parser : {difference},
                  text : Texts({"2", "-", "+", " "}) \cup Chains \cup Unfinished,
                  whitespace : {Whitespace, Invalid}]
                 \cup [parser : {expr, term},
                       text : Expressions,
                       whitespace : {Whitespace, Invalid}]
    /\ forward = Name("expr", term)
    /\ sets = <<Name("expr", term)>>
    /\ op = "init"
    /\ args = None
    /\ outcome = None

SpecInfix == InitInfix /\ [][Next]_vars

\* the value of a chain read from the left: ((c0 op1 c1) op2 c2) ...
RECURSIVE LeftFold(_)
LeftFold(t) ==
    IF Len(t) = 1 THEN int_of_digits(t)
    ELSE LET left == LeftFold(SubSeq(t, 1, Len(t) - 2))
             right == int_of_digits(<<t[Len(t)]>>)
         IN IF t[Len(t) - 1] = "-" THEN left - right ELSE left + right

IsChain(t) ==
    /\ Len(t) % 2 = 1
    /\ \A i \in 1..Len(t) :
           IF i % 2 = 1 THEN t[i] \in {"2", "3"} ELSE t[i] \in {"-", "+"}

\* the first component of the InfixExpr under test, parsed where it starts
FirstComponent ==
    parse(input.parser.component, input.text, args.position, args.end,
          input.whitespace, 1)

\* some operator of the InfixExpr under test matches after the first component
OperatorFollows ==
    \E i \in 1..Len(input.parser.operators) :
        LET r == parse(input.parser.operators[i][1], input.text,
                       FirstComponent.end.n, args.end, input.whitespace, 1)
        IN Returned(r) /\ Truthy(r)

\* C13: InfixExpr fails exactly when its first component fails, returns the
\* first component's value and end when no operator follows it, and on a chain
\* c0 op1 c1 ... opn cn returns the left-associated fold, each operator being
\* the first listed one that matches; the docstring's grammar evaluates
\* "2+3*4" to 14 and "(2+3)*4" to 20.
C13_InfixExpr ==
    /\ (op = "parse" /\ input.parser.kind = "InfixExpr") =>
          /\ ~Returned(FirstComponent) => outcome = FirstComponent
          /\ (Returned(FirstComponent) /\ Returned(outcome)) =>
                /\ Truthy(outcome) <=> Truthy(FirstComponent)
                /\ (Truthy(FirstComponent) /\ ~OperatorFollows) =>
                      /\ outcome.end = FirstComponent.end
                      /\ outcome.value = FirstComponent.value
          /\ (input.parser = difference /\ IsChain(input.text)
                /\ args.position = 0) =>
                /\ Returned(outcome) /\ Truthy(outcome)
                /\ outcome.end = IntV(Len(input.text))
                /\ outcome.value = IntV(LeftFold(input.text))
    /\ (op = "parse_string" /\ input.parser = expr) =>
          /\ input.text = <<"2", "+", "3", "*", "4">> =>
                outcome = [value |-> FloatV(14, 1)]
          /\ input.text = <<"(", "2", "+", "3", ")", "*", "4">> =>
                outcome = [value |-> FloatV(20, 1)]

\* 3-2-2 is parsed as (3-2)-2, with "-" taken as the first listed operator
C13_Witness ==
    /\ op = "parse"
    /\ input.parser = difference
    /\ input.text = <<"3", "-", "2", "-", "2">>
    /\ args.position = 0
    /\ Returned(outcome) /\ Truthy(outcome)
    /\ outcome.value = IntV(-1)
    /\ outcome.end = IntV(5)


(* Then as a monoid *)

MonoidOperands ==
    {Return(None), Return(Tuple(<<Str(a), Str(b)>>)), Literal(a),
     SignificantLiteral(b), Tag(Str(<<"k">>), AnyChar)}

MonoidGrammars ==
    MonoidOperands \cup {Then(Then(x, y), z) : x, y, z \in MonoidOperands}

InitMonoid ==
    InitWith([parser : MonoidGrammars,
              text : Texts({"a", "b", " "}),
              whitespace : {Whitespace, Invalid}])

SpecMonoid == InitMonoid /\ [][Parse]_vars

\* the parser under test, called again with the arguments of the last call
Again(parser) ==
    parse(parser, input.text, args.position, args.end, input.whitespace, 0)

\* two outcomes agree on success or failure, on the end and on the value
Agree(r, s) ==
    IF Returned(r) /\ Returned(s)
    THEN /\ Truthy(r) <=> Truthy(s)
         /\ r.end = s.end
         /\ r.value = s.value
    ELSE r = s

\* C14: Then(Then(a, b), c) and Then(a, Then(b, c)) agree on success or
\* failure, end and value, and Then(Return(None), p) and Then(p, Return(None))
\* each agree with p.
C14_ThenMonoid ==
    op = "parse" =>
        /\ Agree(outcome, Again(Then(Return(None), input.parser)))
        /\ Agree(outcome, Again(Then(input.parser, Return(None))))
        /\ (input.parser.kind = "Then" /\ input.parser.first.kind = "Then") =>
              Agree(outcome,
                    Again(Then(input.parser.first.first,
                               Then(input.parser.first.second,
                                    input.parser.second))))

\* three operands with values of their own, merged into one flat tuple
C14_Witness ==
    /\ op = "parse"
    /\ input.parser = Then(Then(SignificantLiteral(b), Return(Tuple(<<Str(a), Str(b)>>))),
                           Tag(Str(<<"k">>), AnyChar))
    /\ Returned(outcome) /\ Truthy(outcome)
    /\ outcome.value = Tuple(<<Str(b), Str(a), Str(b), Pair(Str(<<"k">>), Str(a))>>)
    /\ outcome.end.n = args.position + 2


(* Dependent parsers: a length byte, then that many characters *)

\* Bind(AnyChar(), lambda x: Chars(ord(x)))
packet == Bind(AnyChar, "Chars(ord(x))")

BindGrammars ==
    {packet, Bind(byte, "Chars(n)"), Bind(SignificantLiteral(a), "Literal(x)"),
     Bind(Optional(Literal(a), None), "Chars(ord(x))")}

InitBind ==
    InitWith([parser : BindGrammars,
              text : Texts({"a", " ", "\\x01", "\\x02", "\\xff"}),
              whitespace : {Whitespace, Invalid}])

SpecBind == InitBind /\ [][Next]_vars

\* the first parser of the Bind under test, parsed at the position of the call
BindFirst ==
    parse(input.parser.parser, input.text, args.position, args.end,
          input.whitespace, 1)

\* the parser the function gives for the first parser's value
BindSecondParser == bind_call(input.parser.function, BindFirst.value)

\* that parser, run from the first parser's end
BindSecond ==
    parse(BindSecondParser, input.text, BindFirst.end.n, args.end,
          input.whitespace, 1)

\* a length byte followed by exactly as many characters as it declares
IsRecord(t) == Len(t) >= 1 /\ Len(t) = Ord(t[1]) + 1

ParsesRecord ==
    op = "parse" /\ input.parser = packet /\ IsRecord(input.text)
        /\ args.position = 0

\* C17 as stated: every record whose length byte declares n gives a payload
\* of exactly n characters, whatever the whitespace parser.
C17_Original ==
    ParsesRecord =>
        /\ Returned(outcome) /\ Truthy(outcome)
        /\ Len(outcome.value.s) = Ord(input.text[1])

\* C17: Bind(p, f) fails with p's expectations when p fails, without f; when
\* p succeeds it succeeds exactly when f(v) succeeds from p's end, with the
\* end and value of that parse. A success of the packet grammar holds exactly
\* as many characters as the length character declares, and with a whitespace
\* parser that consumes nothing every record gives its whole payload.
C17_Bind ==
    /\ (op = "parse" /\ input.parser.kind = "Bind") =>
          IF ~Returned(BindFirst) THEN outcome = BindFirst
          ELSE IF ~Truthy(BindFirst) THEN outcome = failure(BindFirst.expected)
          ELSE IF Raised(BindSecondParser) THEN outcome = BindSecondParser
          ELSE IF ~Returned(BindSecond) THEN outcome = BindSecond
          ELSE /\ Returned(outcome)
               /\ Truthy(outcome) <=> Truthy(BindSecond)
               /\ outcome.end = BindSecond.end
               /\ outcome.value = BindSecond.value
    /\ (op = "parse" /\ input.parser = packet
          /\ Returned(outcome) /\ Truthy(outcome)) =>
          Len(outcome.value.s) = Ord(BindFirst.value.s[1])
    /\ (ParsesRecord /\ input.whitespace = Invalid) =>
          /\ Returned(outcome) /\ Truthy(outcome)
          /\ outcome.value = Str(Tail(input.text))
          /\ outcome.end = IntV(Len(input.text))

\* a record of two characters, the second one a blank, read whole
C17_Witness ==
    /\ ParsesRecord
    /\ input.text = <<"\\x02", "a", " ">>
    /\ input.whitespace = Invalid
    /\ outcome.value = Str(<<"a", " ">>)
    /\ outcome.end = IntV(3)


(* Keywords *)

KeywordGrammars ==
    {Keyword(p, terminator, exact_terminator, or_end) :
        p \in {Str(a), SignificantLiteral(a)},
        terminator \in {None, Str(b), CharIn(Str(<<" ", "b">>)),
                        First(<<SignificantLiteral(b), Literal(a)>>)},
        exact_terminator \in BOOLEAN, or_end \in BOOLEAN}

InitKeyword ==
    InitWith([parser : KeywordGrammars,
              text : Texts({"a", "b", " "}),
              whitespace : {Whitespace, Invalid}])

SpecKeyword == InitKeyword /\ [][Next]_vars

\* where the keyword's parser is run: after one skip of the ambient whitespace
KeywordStart ==
    consume(input.whitespace, input.text, args.position, args.end, 0)

KeywordResult ==
    parse(input.parser.parser, input.text, KeywordStart.n, args.end,
          input.whitespace, 1)

\* the whitespace parser of the terminator's check
TerminatorSpace ==
    IF input.parser.exact_terminator THEN Invalid ELSE input.whitespace

\* a parser run as the terminator, from the end of the keyword's parser
Terminates(parser) ==
    LET r == parse(parser, input.text, KeywordResult.end.n, args.end,
                   TerminatorSpace, 1)
    IN Returned(r) /\ Truthy(r)

Terminated ==
    \/ Terminates(IF input.parser.terminator # None THEN input.parser.terminator
                  ELSE input.whitespace)
    \/ input.parser.or_end /\ Terminates(End(TRUE))

\* C18: a Keyword succeeds exactly when its parser succeeds after one skip of
\* the ambient whitespace and, from that parser's end, the terminator (the
\* ambient whitespace parser when none is given) or, with or_end, End
\* matches, under Invalid as whitespace parser when exact_terminator is set;
\* the success is the parser's own Result.
C18_Keyword ==
    (op = "parse" /\ input.parser.kind = "Keyword") =>
        /\ Returned(outcome)
        /\ Truthy(outcome) <=> (Truthy(KeywordResult) /\ Terminated)
        /\ Truthy(outcome) => outcome = KeywordResult

\* the terminator matches a character that the Keyword leaves unconsumed
C18_Witness ==
    /\ op = "parse"
    /\ input.parser = Keyword(Str(a), None, TRUE, TRUE)
    /\ input.whitespace = Whitespace
    /\ input.text = <<"a", " ", "b">>
    /\ args.position = 0
    /\ Truthy(outcome)
    /\ outcome.end = IntV(1)
    /\ ~Terminates(End(TRUE))


(* Lookahead and exclusion *)

LookOperands ==
    {Literal(a), SignificantLiteral(a), SignificantLiteral(ab), CharIn(Str(ab)),
     Return(Str(b))}

LookGrammars ==
    {Not(p) : p \in LookOperands}
        \cup {Present(p) : p \in LookOperands}
        \cup {Preserve(p) : p \in LookOperands}
        \cup {Except(p, q) : p, q \in LookOperands}
        \cup {And(p, q) : p, q \in LookOperands}

InitLook ==
    InitWith([parser : LookGrammars,
              text : Texts({"a", "b", " "}),
              whitespace : {Whitespace, Invalid}])

SpecLook == InitLook /\ [][Next]_vars

\* the parser a lookahead wraps, parsed at the position of the call
Looked == Again(input.parser.parser)

\* the avoid parser of an Except or the check parser of an And, parsed at the
\* position of the call
Other ==
    Again(IF input.parser.kind = "Except" THEN input.parser.avoid_parser
          ELSE input.parser.check_parser)

\* C19: Not(p) succeeds exactly when p fails at the same position; a success
\* of Not, Present or Preserve ends at the position it was given, with the
\* value None for Not and Present and p's value for Preserve.
C19_Lookahead ==
    (op = "parse" /\ input.parser.kind \in {"Not", "Present", "Preserve"}) =>
        /\ Returned(outcome)
        /\ Truthy(outcome) <=>
               IF input.parser.kind = "Not" THEN ~Truthy(Looked) ELSE Truthy(Looked)
        /\ Truthy(outcome) =>
               /\ outcome.end = IntV(args.position)
               /\ outcome.value =
                      IF input.parser.kind = "Preserve" THEN Looked.value ELSE None

\* Preserve keeps the value of a parser that skipped a blank and consumed a
\* character, and stays where it was
C19_Witness ==
    /\ op = "parse"
    /\ input.parser = Preserve(CharIn(Str(ab)))
    /\ input.text = <<" ", "a">>
    /\ args.position = 0
    /\ Looked.end = IntV(2)
    /\ Truthy(outcome)
    /\ outcome.end = IntV(0)
    /\ outcome.value = Str(a)

\* C20: Except(p, avoid) succeeds exactly when p succeeds and avoid fails at
\* the same position, And(p, check) exactly when both succeed there; either
\* success is p's own Result, whatever the second parser matched.
C20_ExceptAnd ==
    (op = "parse" /\ input.parser.kind \in {"Except", "And"}) =>
        /\ Returned(outcome)
        /\ Truthy(outcome) <=>
               /\ Truthy(Looked)
               /\ IF input.parser.kind = "Except" THEN ~Truthy(Other)
                  ELSE Truthy(Other)
        /\ Truthy(outcome) => outcome = Looked

\* the check parser matches two characters and the And ends after one
C20_Witness ==
    /\ op = "parse"
    /\ input.parser = And(SignificantLiteral(a), SignificantLiteral(ab))
    /\ input.text = <<"a", "b">>
    /\ args.position = 0
    /\ Other.end = IntV(2)
    /\ Truthy(outcome)
    /\ outcome.end = IntV(1)
    /\ outcome.value = Str(a)


(* Unbounded repetition *)

\* the first application of the repeated parser
FirstApplication == Again(input.parser.parser)

\* C21: Repeat(p, 0, None) gives the same outcome, expectations included, as
\* ZeroOrMore(p), and Repeat(p, 1, None) the same as OneOrMore(p); so the
\* former never fails and the latter fails exactly when the first
\* application of p fails.
C21_RepeatUnbounded ==
    (op = "parse" /\ input.parser.kind = "Repeat" /\ input.parser.max = None) =>
        /\ input.parser.min = IntV(0) =>
              /\ outcome = Again(ZeroOrMore(input.parser.parser))
              /\ Returned(outcome) => Truthy(outcome)
        /\ input.parser.min = IntV(1) =>
              /\ outcome = Again(OneOrMore(input.parser.parser))
              /\ (Returned(outcome) /\ Returned(FirstApplication)) =>
                    (~Truthy(outcome) <=> ~Truthy(FirstApplication))

\* two applications collected by Repeat(p, 1, None)
C21_Witness ==
    /\ op = "parse"
    /\ input.parser = Repeat(CharIn(Str(ab)), IntV(1), None)
    /\ input.text = <<"a", " ", "b">>
    /\ args.position = 0
    /\ outcome = match(3, List(<<Str(a), Str(b)>>), AsList(<<3, EAnyCharIn(Str(ab))>>))


(* Words *)

WordChars == Str(ab)

InitWord ==
    InitWith([parser : {Word(WordChars, None, IntV(1), None)},
              text : Texts({"a", "b", " "}),
              whitespace : {Whitespace, Invalid}])

\* a caller constructs Word(chars, init_chars, min, max) and, unless the
\* constructor raises, goes on with the new parser
NewWord ==
    \E init_chars \in {None, Str(a)}, min \in 0..MaxCount,
       max \in {None} \cup {IntV(n) : n \in 1..MaxCount} :
        LET word == Word(WordChars, init_chars, IntV(min), max)
        IN /\ op' = "Word"
           /\ args' = [chars |-> WordChars, init_chars |-> init_chars,
                       min |-> min, max |-> max]
           /\ outcome' = IF Raised(word) THEN word ELSE None
           /\ input' = IF Raised(word) THEN input ELSE [input EXCEPT !.parser = word]
           /\ UNCHANGED <<forward, sets>>

NextWord == NewWord \/ Parse

SpecWord == InitWord /\ [][NextWord]_vars

\* where the word starts: after one skip of the ambient whitespace
WordStart ==
    consume(input.whitespace, input.text, args.position, args.end, 0).n

\* the characters of the word that are there to consume from WordStart
Consumable ==
    LET self == input.parser
        m == regex_word_match(self, input.text, WordStart, args.end)
    IN IF m = None THEN 0 ELSE m.n - WordStart

\* C22: a Word can be constructed with min = 0, and then succeeds with the
\* empty string, consuming nothing, when there is no character to take or the
\* first one is not in init_chars; with min >= 1 a Word fails whenever fewer
\* than min characters were consumed.
C22_WordMin ==
    /\ (op = "Word" /\ args.min = 0) => ~Raised(outcome)
    /\ (op = "parse" /\ input.parser.kind = "Word") =>
          IF input.parser.min.n = 0
          THEN Consumable = 0 =>
                  /\ Truthy(outcome)
                  /\ outcome.value = Str(<<>>)
                  /\ outcome.end = IntV(args.position)
          ELSE Consumable < input.parser.min.n => ~Truthy(outcome)


(* Numbers and their diagnostics *)

\* (+Digit() + -(SignificantLiteral(".") + +Digit()))[flatten]["".join][float]
decimal ==
    Translate(Translate(Translate(Then(OneOrMore(Digit),
                                       Optional(Then(SignificantLiteral(<<".">>),
                                                     OneOrMore(Digit)), None)),
                                  "flatten"),
                        "join"),
              "float")

twelve_a == <<"1", "2", "a">>

InitNumber ==
    InitWith([parser : {decimal, Translate(number, "float")},
              text : Texts({"1", "2", "a", "."})
                         \cup {<<"1", "2", "3", ".", "4", "5">>},
              whitespace : {Whitespace, Invalid}])

SpecNumber == InitNumber /\ [][Next]_vars

\* what the message of the ParseException is made from
Diagnostic == filter_expectations(RootResult.expected)

FullMatchOfTwelveA ==
    op = "parse_string" /\ args.all /\ input.text = twelve_a

\* C23 as stated: the alternatives at index 2 are a digit or end-of-input.
C23_Original ==
    FullMatchOfTwelveA =>
        /\ Raised(outcome)
        /\ Diagnostic[1] = 2
        /\ {Diagnostic[2][i] : i \in 1..Len(Diagnostic[2])}
               = {EAnyCharIn(digit_chars), EUnsatisfiable}

\* C23: parse_string("12a") in full-match mode raises ParseException with a
\* diagnostic positioned at index 2 whose alternatives are a digit or ".".
C23_Diagnostic ==
    FullMatchOfTwelveA =>
        /\ outcome.raised = "ParseException"
        /\ Diagnostic = <<2, <<EAnyCharIn(digit_chars), EStringLiteral(<<".">>)>>>>
        /\ outcome.message =
               <<"Parse failure: ", "At position ", "2", ": expected one of ",
                 "any char in ", "\"">> \o digit_chars.s
                   \o <<"\"", ", ", "\"", ".", "\"">>

C23_Witness ==
    /\ FullMatchOfTwelveA
    /\ input.parser = decimal
    /\ args.whitespace = None
    /\ Raised(outcome)
    /\ RootResult.end = IntV(2)
    /\ RootResult.value = FloatV(12, 1)


(* Cyclic grammars *)

\* targets that refer back to the Forward: behind a literal, between two
\* literals, inside a repetition behind a literal, inside a repetition of a
\* parser that may match nothing, and at the very start
CycleTargets ==
    {Then(Literal(a), Optional(Forward, None)),
     First(<<Then(Literal(b), Then(Forward, Literal(b))), Literal(a)>>),
     Then(Literal(a), ZeroOrMore(Forward)),
     Then(Literal(a), ZeroOrMore(Optional(Forward, None))),
     Name("expr", Forward)}

InitCycle ==
    /\ input \in [parser : {Forward, Then(Literal(b), Forward), ZeroOrMore(Forward)},
                  text : Texts({"a", "b", " "}),
                  whitespace : {Whitespace, Invalid}]
    /\ \E target \in CycleTargets : forward = target /\ sets = <<target>>
    /\ op = "init"
    /\ args = None
    /\ outcome = None

SpecCycle == InitCycle /\ [][Next]_vars

\* the parsers a combinator of these grammars is built from
Children(p) ==
    CASE p.kind = "Then" -> <<p.first, p.second>>
      [] p.kind \in {"First", "Longest"} -> p.parsers
      [] p.kind \in {"Optional", "ZeroOrMore", "OneOrMore", "Discard", "Name"} ->
            <<p.parser>>
      [] OTHER -> <<>>

\* p can succeed without consuming a character; a Forward is unfolded at
\* most fuel times
RECURSIVE Nullable(_, _)
Nullable(p, fuel) ==
    CASE p.kind \in {"Optional", "ZeroOrMore", "Return"} -> TRUE
      [] p.kind = "Then" -> Nullable(p.first, fuel) /\ Nullable(p.second, fuel)
      [] p.kind \in {"First", "Longest"} ->
            \E i \in 1..Len(p.parsers) : Nullable(p.parsers[i], fuel)
      [] p.kind \in {"OneOrMore", "Discard", "Name"} -> Nullable(p.parser, fuel)
      [] p.kind = "Forward" -> fuel = 0 \/ Nullable(forward, fuel - 1)
      [] OTHER -> FALSE

\* p can reach a Forward before any character has been consumed
RECURSIVE ReachesForwardFirst(_)
ReachesForwardFirst(p) ==
    CASE p.kind = "Forward" -> TRUE
      [] p.kind = "Then" ->
            \/ ReachesForwardFirst(p.first)
            \/ Nullable(p.first, MaxLen) /\ ReachesForwardFirst(p.second)
      [] OTHER ->
            \E i \in 1..Len(Children(p)) : ReachesForwardFirst(Children(p)[i])

LeftRecursive == ReachesForwardFirst(forward)

\* p holds an unbounded repetition of a parser that can match nothing
RECURSIVE RepeatsNothing(_)
RepeatsNothing(p) ==
    \/ p.kind \in {"ZeroOrMore", "OneOrMore"} /\ Nullable(p.parser, MaxLen)
    \/ \E i \in 1..Len(Children(p)) : RepeatsNothing(Children(p)[i])

\* the call came back: it neither loops for ever nor exhausts the stack
ComesBack == ~Hangs(outcome) /\ outcome # Raise("RuntimeError")

BoundGrammars ==
    {Literal(a), SignificantLiteral(aa), AnyChar, CharIn(Str(a)),
     CharNotIn(Str(a)), Word(Str(a), None, IntV(1), None), End(TRUE), End(FALSE),
     Return(None), ZeroOrMore(AnyChar), Then(Literal(a), Optional(Literal(a), None)),
     Longest(<<Literal(a), Literal(aa)>>), Limit(IntV(1), OneOrMore(AnyChar)),
     Not(Literal(a)), Preserve(Literal(a)), packet, Bind(byte, "Chars(n)")}

InitBound ==
    InitWith([parser : BoundGrammars,
              text : Texts({"a", " ", "\\xfe"}),
              whitespace : {Whitespace, CharIn(Str(<<" ">>))}])

\* parser.parse(text, position, end, whitespace) with an end that may lie
\* before the end of the text
ParseWithin ==
    \E pos \in 0..Len(input.text) :
        \E end \in pos..Len(input.text) :
            /\ op' = "parse"
            /\ args' = [position |-> pos, end |-> end]
            /\ outcome' = parse(input.parser, input.text, pos, end,
                                input.whitespace, 0)
            /\ UNCHANGED <<input, forward, sets>>

\* whitespace.consume(text, position, end)
Consume ==
    \E pos \in 0..Len(input.text) :
        \E end \in pos..Len(input.text) :
            /\ op' = "consume"
            /\ args' = [position |-> pos, end |-> end]
            /\ outcome' = consume(input.whitespace, input.text, pos, end, 0)
            /\ UNCHANGED <<input, forward, sets>>

NextBound == ParseWithin \/ Consume

SpecBound == InitBound /\ [][NextBound]_vars

\* C25: a success ends between the position and the end of the call, and
\* consume returns a position between them.
C25_WithinBounds ==
    /\ (op = "parse" /\ Returned(outcome) /\ Truthy(outcome)) =>
           (args.position <= outcome.end.n /\ outcome.end.n <= args.end)
    /\ (op = "consume" /\ Returned(outcome)) =>
           (args.position <= outcome.n /\ outcome.n <= args.end)


(* An operator without a component after it *)

\* the first operator of the InfixExpr under test to match at position k
MatchedOperator(k) ==
    LET ops == InfixExpr_operators(input.parser, input.text, k, args.end,
                                   input.whitespace, 1, 1, <<>>)
    IN IF Returned(ops) /\ ops.found_op THEN ops.op_result ELSE None

\* the text is a chain up to k, an operator matches there and no component
\* follows the operator
UnfinishedAt(k) ==
    /\ IsChain(SubSeq(input.text, 1, k))
    /\ MatchedOperator(k) # None
    /\ LET r == parse(input.parser.component, input.text, MatchedOperator(k).end.n,
                      args.end, input.whitespace, 1)
       IN Returned(r) /\ ~Truthy(r)

\* C26: when an operator matches and the component after it fails, InfixExpr
\* succeeds with the value folded so far and ends where the last component
\* ended, before the operator.
C26_UnfinishedOperator ==
    (op = "parse" /\ input.parser = difference /\ args.position = 0) =>
        \A k \in 1..Len(input.text) :
            UnfinishedAt(k) =>
                /\ Returned(outcome) /\ Truthy(outcome)
                /\ outcome.end = IntV(k)
                /\ outcome.value = IntV(LeftFold(SubSeq(input.text, 1, k)))

\* 3-2- yields 1 and ends at 3, before the second "-"
C26_Witness ==
    /\ op = "parse"
    /\ input.parser = difference
    /\ input.text = <<"3", "-", "2", "-">>
    /\ args.position = 0
    /\ UnfinishedAt(3)
    /\ outcome.value = IntV(1)
    /\ outcome.end = IntV(3)


(* Single characters *)

\* the first index from p that is e or holds a character outside blanks
FirstOutside(blanks, t, p, e) ==
    CHOOSE q \in p..e :
        /\ q = e \/ t[q + 1] \notin blanks
        /\ \A i \in p..(q - 1) : t[i + 1] \in blanks

\* the characters the whitespace parser of the input skips
Blanks ==
    IF input.whitespace.kind = "Whitespace" THEN {" ", "\t", "\r", "\n"}
    ELSE {input.whitespace.chars.s[i] : i \in 1..Len(input.whitespace.chars.s)}

\* where the call stands once the whitespace is skipped
Skipped == FirstOutside(Blanks, input.text, args.position, args.end)

\* the expectation a failure of the parser under test carries
OwnExpectation ==
    CASE input.parser.kind = "CharIn" -> EAnyCharIn(input.parser.chars)
      [] input.parser.kind = "CharNotIn" -> EAnyCharNotIn(input.parser.chars)
      [] input.parser.kind = "AnyChar" -> EAnyChar

\* the character at Skipped is one the parser under test takes
Takes ==
    /\ Skipped < args.end
    /\ LET c == input.text[Skipped + 1]
           listed == \E i \in 1..Len(input.parser.chars.s) :
                         input.parser.chars.s[i] = c
       IN CASE input.parser.kind = "CharIn" -> listed
            [] input.parser.kind = "CharNotIn" -> ~listed
            [] input.parser.kind = "AnyChar" -> TRUE

\* C27: CharIn, CharNotIn and AnyChar skip whitespace first; a success ends
\* one character later, yields that character and expects Unsatisfiable at
\* its end; a failure carries the parser's own expectation at the position
\* after the whitespace.
C27_SingleCharacter ==
    (op = "parse" /\ input.parser.kind \in {"CharIn", "CharNotIn", "AnyChar"}) =>
        /\ Returned(outcome)
        /\ Truthy(outcome) <=> Takes
        /\ Truthy(outcome) =>
              /\ outcome.end = IntV(Skipped + 1)
              /\ outcome.value = Str(<<input.text[Skipped + 1]>>)
              /\ outcome.expected = << <<Skipped + 1, EUnsatisfiable>> >>
        /\ ~Truthy(outcome) =>
              outcome.expected = << <<Skipped, OwnExpectation>> >>

\* a character taken after a blank, and a failure behind a blank at the end
C27_Witness ==
    /\ op = "parse"
    /\ input.parser = CharIn(Str(a))
    /\ args.position = 0
    /\ \/ /\ input.text = <<" ", "a", "a">>
          /\ args.end = 2
          /\ outcome.end = IntV(2)
       \/ /\ input.text = <<" ", "a">>
          /\ args.end = 1
          /\ outcome = failure(<< <<1, EAnyCharIn(Str(a))>> >>)


(* Loops without a bound *)

Repeated == {Literal(a), Return(None), Optional(Literal(a), None)}

LoopGrammars ==
    UNION {{ZeroOrMore(p), OneOrMore(p), Repeat(p, IntV(1), None)} : p \in Repeated}

\* whitespace parsers that take one blank, and one that may take nothing
InitLoop ==
    InitWith([parser : LoopGrammars,
              text : Texts({"a", " "}),
              whitespace : {Whitespace, CharIn(Str(<<" ">>)),
                            ZeroOrMore(CharIn(Str(<<" ">>)))}])

SpecLoop == InitLoop /\ [][NextBound]_vars

\* every application of parser before end returns, and a successful one ends
\* behind where it started
Advances(parser, space, end) ==
    \A p \in 0..end :
        LET r == parse(parser, input.text, p, end, space, 1)
        IN Returned(r) /\ (Truthy(r) => r.end.n > p)

\* the first position from p at which the whitespace parser of the input,
\* run with Invalid as its whitespace, fails
FirstFailure(p, end) ==
    CHOOSE q \in p..end :
        \A i \in p..q :
            Truthy(parse(input.whitespace, input.text, i, end, Invalid, 1)) <=> i < q

\* C28: consume and the unbounded repetitions return when every application
\* of the repeated parser returns and every successful one advances; consume
\* then returns the first position at which the whitespace parser fails.
C28_LoopsTerminate ==
    /\ (op = "parse" /\ Advances(input.parser.parser, input.whitespace, args.end)) =>
           Returned(outcome)
    /\ (op = "consume" /\ Advances(input.whitespace, Invalid, args.end)) =>
           /\ Returned(outcome)
           /\ outcome = IntV(FirstFailure(args.position, args.end))

\* two applications of the literal, each behind a consume loop that ran
C28_Witness ==
    /\ op = "parse"
    /\ input.parser = OneOrMore(Literal(a))
    /\ input.whitespace = CharIn(Str(<<" ">>))
    /\ input.text = <<" ", "a", "a">>
    /\ args = [position |-> 0, end |-> 3]
    /\ Advances(input.parser.parser, input.whitespace, args.end)
    /\ Returned(outcome)
    /\ outcome.end = IntV(3)


(* The two ways of skipping whitespace *)

InitBlank ==
    InitWith([parser : {AnyChar, Literal(a)},
              text : Texts({"a", " ", "\n"}),
              whitespace : {Whitespace, CharIn(whitespace)}])

SpecBlank == InitBlank /\ [][NextBound]_vars

\* C29: for offsets position <= end into the input, the regex consume of
\* Whitespace() and the loop of Parser.consume run on CharIn(whitespace)
\* return the same position: the first index from position that is end or
\* holds a character that is not whitespace.
C29_ConsumeAgrees ==
    op = "consume" =>
        LET quick == Whitespace_consume(input.text, args.position, args.end)
            loop == Parser_consume(CharIn(whitespace), input.text, args.position,
                                   args.end, 0)
        IN /\ quick = loop
           /\ quick = IntV(FirstOutside({" ", "\t", "\r", "\n"}, input.text,
                                        args.position, args.end))
           /\ outcome = IF input.whitespace = Whitespace THEN quick ELSE loop

\* a blank and a newline skipped, stopping at an end that lies before a
\* further blank
C29_Witness ==
    /\ op = "consume"
    /\ input.whitespace = Whitespace
    /\ input.text = <<" ", "\n", " ">>
    /\ args = [position |-> 0, end |-> 2]
    /\ outcome = IntV(2)


(* Ties between the operands of Longest *)

\* operand i succeeds, no operand ends behind it and none before it ends as
\* far
FirstOfLongest(i) ==
    /\ SucceedsAt(i)
    /\ \A j \in 1..NumOperands :
           SucceedsAt(j) => AltResult(j).end.n <= AltResult(i).end.n
    /\ \A j \in 1..(i - 1) :
           SucceedsAt(j) => AltResult(j).end.n < AltResult(i).end.n

\* C30: when several operands of Longest succeed with the same greatest end,
\* Longest returns the Result, value and expectations, of the lowest-indexed
\* of them.
C30_LongestTie ==
    (/\ op = "parse"
     /\ input.parser.kind = "Longest"
     /\ \A i \in 1..NumOperands : Returned(AltResult(i))) =>
        \A i \in 1..NumOperands : FirstOfLongest(i) => outcome = AltResult(i)

\* both operands end at 1 on "a"; the value is that of the first, the string
\* of the SignificantLiteral, not the None of the Literal
C30_Witness ==
    /\ op = "parse"
    /\ input.parser = Longest(<<SignificantLiteral(a), Literal(a)>>)
    /\ input.text = a
    /\ args.position = 0
    /\ FirstOfLongest(1)
    /\ AltResult(2).end = AltResult(1).end
    /\ AltResult(2).value = None
    /\ outcome.value = Str(a)

=============================================================================
